---- MODULE Spec2Model ----
(***************************************************************************)
(* Realtime collaboration server of the collaborative editor: the update   *)
(* log and document state in Postgres (db/updates.js, db/documents.js),    *)
(* the snapshot objects (r2/snapshots.js) and the Socket.IO handlers of    *)
(* index.js (join-document, yjs-update) with the in-memory Y.Doc cache.    *)
(*                                                                         *)
(* One document is modelled.  A Yjs update is an identifier; a Y.Doc state *)
(* (and so a snapshot's bytes) is the set of updates applied to it, since  *)
(* Y.applyUpdate is commutative and idempotent.  Every `await` of the code *)
(* is a point where other handlers run: a database or storage request is   *)
(* one action (the request taking effect at the store), and the code that  *)
(* follows the await is part of the handler's next action.                 *)
(***************************************************************************)
EXTENDS Integers, Sequences, FiniteSets, TLC

\* ------------------------------------------------------------------ bounds
MaxUpdates == 2        \* yjs-update messages sent in a run
MaxJoins == 1          \* join-document messages sent in a run
MaxRotations == 2      \* share-link rotations requested in a run
MaxRestarts == 1       \* restarts of the server process in a run
MaxPresence == 2       \* awareness-update and relay events in a run
EveryN == 1            \* SNAPSHOT_EVERY_N_UPDATES of the run
MaxCalls == 4          \* POST /api/execute requests in a run
Limit == 2             \* RATE_LIMIT_MAX_REQUESTS of the run
Window == 2            \* RATE_LIMIT_WINDOW_MS of the run, in clock ticks
MaxClock == 3          \* last value of Date.now() in a run
MaxWorkers == 2        \* Worker instances created in a run
MAX_CONCURRENT_JOBS == 2   \* concurrency of a Worker

Sockets == {"s1", "s2", "s3"}
Users == {"alice", "bob"}
OwnerUser == "alice"

UpdIds == 1..MaxUpdates          \* one handler per yjs-update message
InitialUpdate == 0               \* the update encoding initialContent
RotIds == 1..MaxRotations        \* one call per rotation; its token is its id
GuessToken == 0                  \* a token the server never issued
NoToken == -1                    \* payload without linkToken
Tokens == {GuessToken} \cup RotIds

Jwts == {"jwt-alice", "jwt-bob"}   \* session tokens the identity provider signed
ForgedJwt == "forged"              \* a token that fails verification
NoJwt == ""                        \* handshake without a token
NoUser == "nouser"                 \* socket.data.user not set

ReqIds == 1..MaxCalls              \* one request per id; its job has the same id

NoRole == "none"
NoKey == <<>>
NoHash == <<>>
NoSock == "nobody"

VARIABLES
    hs,                 \* handshake of each socket: [pc, jwt]
    usersTable,         \* users rows, by user id
    env,                \* process.env: [prune, r2]
    user,               \* socket.data.user.id of each connected socket
    docState,           \* document_state row of the document
    document_updates,   \* rows of document_updates: set of [seq, update]
    rowLock,            \* holder of the row lock on the document_state row
    documents,          \* documents row: [exists, share_status, link_share_token_hash]
    document_members,   \* document_members rows: user -> role
    r2Objects,          \* bucket: set of [key, bytes], one object per key
    cache,              \* docCache entry of the document
    load,               \* the running cache.loadPromise body
    microQ,             \* handlers resumed by the settled loadPromise, in order
    rooms,              \* sockets in the document's room
    docs,               \* socket.data.docs[documentId].role, per socket
    inbox,              \* messages emitted to each socket, in emit order
    join,               \* join-document handler of each socket
    upd,                \* yjs-update handlers
    rot,                \* rotateShareLink calls
    restarts,           \* restarts so far
    hist,               \* history: what was committed, marked, stored, counted
    create,             \* the createDocumentForUser call: [pc, withInitial, failedAt]
    clock,              \* Date.now()
    bucket,             \* rate_limit:execution:<user> sorted sets: user -> set of [score, id]
    scriptSha,          \* RateLimiter.scriptSha is set
    scriptCached,       \* the datastore still holds the loaded script
    redisQ,             \* commands sent on the limiter's connection, in send order
    req,                \* POST /api/execute requests: [pc, user, now, reason]
    jobs,               \* jobs of the queue: [state, by, ran]
    worker,             \* ExecutionQueue.worker: the instance, 0 for null
    workerInitialized,  \* ExecutionQueue.workerInitialized
    shuttingDown,       \* ExecutionQueue._shuttingDown
    inactivityTimeout,  \* the inactivity timer is armed
    workers,            \* Worker instances: [made, live, closing]
    stop,               \* position of stopWorkerAfterInactivity
    closer,             \* position of ExecutionQueue.close
    docker              \* container flags and engine

authVars == <<hs, usersTable>>
dbVars == <<docState, document_updates, rowLock, documents, document_members>>
cacheVars == <<cache, load, microQ>>
sockVars == <<rooms, docs, inbox>>
collabVars == <<create, env, dbVars, r2Objects, cacheVars, sockVars, join, upd, rot, restarts, hist>>
serverVars == <<authVars, user, collabVars>>
rateVars == <<clock, bucket, scriptSha, scriptCached, redisQ>>
workerVars == <<worker, workerInitialized, shuttingDown, inactivityTimeout, workers, stop, closer>>
execVars == <<rateVars, req, jobs, workerVars, docker>>
vars == <<hs, usersTable, env, user, docState, document_updates, rowLock, documents, document_members,
          r2Objects, cache, load, microQ, rooms, docs, inbox, join, upd, rot,
          restarts, hist, create, clock, bucket, scriptSha, scriptCached, redisQ, req, jobs,
          worker, workerInitialized, shuttingDown, inactivityTimeout, workers, stop,
          closer, docker>>

\* ----------------------------------------------------------------- helpers
Max(a, b) == IF a >= b THEN a ELSE b

SeqsOf(rows) == {r.seq : r \in rows}
UpdatesOf(rows) == {r.update : r \in rows}

RECURSIVE SortBySeq(_)
SortBySeq(rows) ==
    IF rows = {} THEN <<>>
    ELSE LET m == CHOOSE r \in rows : \A q \in rows : r.seq <= q.seq
         IN <<m>> \o SortBySeq(rows \ {m})

Range(s) == {s[i] : i \in 1..Len(s)}

\* --------------------------------------------------- pure parts of the code
\* Faulty variant: the signature check accepts any token.
VerifyAnyJwt(token) == TRUE

\* clerk.js verifyClerkJwt: jwtVerify against the JWKS resolves for a signed
\* token and throws for any other.
VerifyClerkJwt(token) == token \in Jwts

\* Faulty variant: the script compares with > and lets one call too many in.
CheckLimitScriptOff(entries, now, id) ==
    LET kept == {e \in entries : e.score > now - Window}
    IN IF Cardinality(kept) > Limit
       THEN [allowed |-> FALSE, entries |-> kept]
       ELSE [allowed |-> TRUE, entries |-> kept \cup {[score |-> now, id |-> id]}]

\* RateLimiter.checkLimitScript, run by the datastore as one step:
\* ZREMRANGEBYSCORE key 0 windowStart, ZCARD, and ZADD now entryId when the
\* count is below the limit.
CheckLimitScript(entries, now, id) ==
    LET kept == {e \in entries : e.score > now - Window}
    IN IF Cardinality(kept) >= Limit
       THEN [allowed |-> FALSE, entries |-> kept]
       ELSE [allowed |-> TRUE, entries |-> kept \cup {[score |-> now, id |-> id]}]

\* executePython / executeJava: the container path is taken only when all
\* three flags are set, else the code runs in a child process of the server.
RunsIn(dk) ==
    IF dk.USE_DOCKER /\ dk.dockerAvailable /\ dk.dockerImagesReady
    THEN "container" ELSE "child_process"

\* removeOnComplete / removeOnFail {count: 1}: when job j finishes as st, it is
\* the one job kept in that set; the jobs already there are removed.
KeepLast(js, j, st) ==
    [k \in DOMAIN js |->
        IF k = j THEN [js[k] EXCEPT !.state = st]
        ELSE IF js[k].state = st THEN [js[k] EXCEPT !.state = "removed"]
        ELSE js[k]]

\* clerk.js claimsToProfile, db/users upsertUserByClerkId: the user of the subject.
UserOfJwt(token) == IF token = "jwt-alice" THEN "alice" ELSE "bob"

JwtOfUser(u) == IF u = "alice" THEN "jwt-alice" ELSE "jwt-bob"

\* Faulty variant: any recorded role may edit.
CanEditAny(role) == TRUE

\* index.js canEdit
CanEdit(role) == role = "owner" \/ role = "editor"

\* updates.js appendUpdate: nextSeq = BigInt(latest_update_seq) + 1n
NextSeq(latest) == latest + 1

\* Faulty variant: the sequence read from document_state is returned, not the one inserted.
AppendReturnStale(nextSeq) == nextSeq - 1

\* Faulty variant: the sequence after the inserted one is returned.
AppendReturnAhead(nextSeq) == nextSeq + 1

\* updates.js appendUpdate: return Number(nextSeq)
AppendReturn(nextSeq) == nextSeq

\* Faulty variant: the row is inserted one sequence past the one computed.
InsertUpdateOff(rows, seq, u) == rows \cup {[seq |-> seq + 1, update |-> u]}

\* insert into document_updates (document_id, seq, actor_user_id, update)
InsertUpdate(rows, seq, u) == rows \cup {[seq |-> seq, update |-> u]}

\* updates.js fetchUpdatesAfter: where seq > $2 order by seq asc
FetchUpdatesAfter(rows, afterSeq) == SortBySeq({r \in rows : r.seq > afterSeq})

\* Faulty variant: the delete has no `seq <= $2` condition.
PruneAll(rows, snapshotSeq, prune) ==
    IF prune THEN {} ELSE rows

\* updates.js markSnapshot: delete from document_updates where seq <= $2
PruneRows(rows, snapshotSeq, prune) ==
    IF prune THEN {r \in rows : r.seq > snapshotSeq} ELSE rows

\* snapshots.js snapshotKey: docs/{documentId}/snapshots/{seq}.bin
SnapshotKey(seq) == <<"docs", "snapshots", seq>>

\* client.js isR2Configured: endpoint, bucket and both access keys are set
IsR2Configured == env.r2 = "on"

\* index.js yjs-update: process.env.R2_BUCKET && process.env.R2_ENDPOINT
R2Env == env.r2 \in {"on", "partial"}

\* index.js yjs-update: pendingUpdates >= everyN || now - lastSnapshotAt >= everyMs
ShouldSnapshot(c) == c.pendingUpdates >= EveryN \/ c.elapsed

\* documents.js sha256Hex
Sha256Hex(token) == <<"sha256", token>>

\* documents.js safeEqual: equal length and timingSafeEqual
SafeEqual(a, b) == Len(a) = Len(b) /\ a = b

\* Faulty variant: the two statuses are swapped.
ShareStatusSwapped(mode) == IF mode = "edit" THEN "public_link_view" ELSE "public_link_edit"

\* documents.js rotateShareLink: mode === 'edit' ? 'public_link_edit' : 'public_link_view'
ShareStatusFor(mode) == IF mode = "edit" THEN "public_link_edit" ELSE "public_link_view"

\* Faulty variant: the presented token's hash is not compared with the stored one.
ValidateAnyToken(info, token) ==
    IF token = NoToken THEN NoRole
    ELSE IF info.link_share_token_hash = NoHash THEN NoRole
    ELSE IF info.share_status = "public_link_view" THEN "viewer"
    ELSE IF info.share_status = "public_link_edit" THEN "editor"
    ELSE NoRole

\* documents.js validateLinkToken, on the row getShareInfo returned
ValidateLinkToken(info, token) ==
    IF token = NoToken THEN NoRole
    ELSE IF info.link_share_token_hash = NoHash THEN NoRole
    ELSE IF ~SafeEqual(Sha256Hex(token), info.link_share_token_hash) THEN NoRole
    ELSE IF info.share_status = "public_link_view" THEN "viewer"
    ELSE IF info.share_status = "public_link_edit" THEN "editor"
    ELSE NoRole

\* socket.to(documentId).emit: every socket of the room but the sender
EmitToOthers(box, room, sender, msg) ==
    [s \in Sockets |-> IF s \in room /\ s # sender THEN Append(box[s], msg) ELSE box[s]]

\* safeEmit / socket.emit: to the handler's own socket
EmitTo(box, s, msg) == [box EXCEPT ![s] = Append(@, msg)]

UpdateMsg(seq, u) ==
    [type |-> "yjs-update", seq |-> seq, update |-> u, snapshot |-> {},
     hasSnapshot |-> FALSE, updates |-> <<>>, message |-> ""]
ErrorMsg(m) ==
    [type |-> "error", seq |-> 0, update |-> 0, snapshot |-> {},
     hasSnapshot |-> FALSE, updates |-> <<>>, message |-> m]
\* { documentId, update }: the awareness bytes are the presence record of the
\* sending client.
AwarenessMsg(d, sender) ==
    [type |-> "awareness-update", seq |-> 0, update |-> 0, snapshot |-> {},
     hasSnapshot |-> FALSE, updates |-> <<>>, message |-> "", documentId |-> d,
     from |-> sender]
AwarenessRequestMsg ==
    [type |-> "awareness-request", seq |-> 0, update |-> 0, snapshot |-> {},
     hasSnapshot |-> FALSE, updates |-> <<>>, message |-> ""]
\* { userId: socket.id, userName, timestamp }
UserLeftMsg(sender) ==
    [type |-> "user-left", seq |-> 0, update |-> 0, snapshot |-> {},
     hasSnapshot |-> FALSE, updates |-> <<>>, message |-> "", from |-> sender]
DocInitMsg(hasSnap, snapshot, snapshotSeq, updates) ==
    [type |-> "doc-init", seq |-> snapshotSeq, update |-> 0, snapshot |-> snapshot,
     hasSnapshot |-> hasSnap, updates |-> updates, message |-> ""]

\* ------------------------------------------------------------ initial state
\* index.js getOrCreateDocCache: the entry a document gets on first use
NewCache ==
    [doc |-> {}, loaded |-> FALSE, loadPromise |-> "none", lastSeqApplied |-> 0,
     lastSnapshotSeq |-> 0, pendingUpdates |-> 0, elapsed |-> FALSE]

IdleLoad ==
    [pc |-> "idle", snapshotSeq |-> 0, key |-> NoKey, hasSnap |-> FALSE,
     snapshot |-> {}, updates |-> <<>>, waiters |-> <<>>]

IdleJoin ==
    [pc |-> "idle", token |-> NoToken, role |-> NoRole, snapshotSeq |-> 0,
     key |-> NoKey, hasSnap |-> FALSE, snapshot |-> {}, updates |-> <<>>,
     before |-> {}]

\* A handler keeps a local only while the code still reads it; one that has
\* returned keeps none.
JoinReturned(j) == [IdleJoin EXCEPT !.pc = "done"]

IdleUpd ==
    [pc |-> "idle", sender |-> NoSock, role |-> NoRole, nextSeq |-> 0, seq |-> 0,
     snap |-> {}]

IdleRot == [pc |-> "idle", user |-> "alice", mode |-> "view"]

IdleCreate == [pc |-> "idle", withInitial |-> FALSE, failedAt |-> 0]

IdleHs == [pc |-> "idle", jwt |-> NoJwt]

\* The handshake of a socket that connected as user u.
Connected(u) == [pc |-> "connected", jwt |-> JwtOfUser(u)]

IdleReq == [pc |-> "idle", user |-> NoUser, now |-> 0, reason |-> "none"]

\* A job id without a job.  state is the job's state in the queue, by the
\* Worker that took it, ran the path the executor chose, lang the language of
\* the job data, proc the sandboxed process, result the status field of the
\* return value and reason the failedReason.
NoJob ==
    [state |-> "none", by |-> 0, ran |-> "none", lang |-> "none", proc |-> "none",
     result |-> "none", reason |-> "none"]

\* Container engine reachable, both images present, the startup check done.
ReadyDocker ==
    [USE_DOCKER |-> TRUE, dockerAvailable |-> TRUE, dockerImagesReady |-> TRUE,
     engine |-> TRUE, images |-> TRUE, check |-> "done"]

\* The execution service after construction: no Worker yet, the limiter's
\* script not loaded, no request made.  dk is the state of the container flags.
FreshExec(dk) ==
    /\ clock = 1
    /\ bucket = [u \in Users |-> {}]
    /\ scriptSha = FALSE
    /\ scriptCached = FALSE
    /\ redisQ = <<>>
    /\ req = [c \in ReqIds |-> IdleReq]
    /\ jobs = [c \in ReqIds |-> NoJob]
    /\ worker = 0
    /\ workerInitialized = FALSE
    /\ shuttingDown = FALSE
    /\ inactivityTimeout = FALSE
    /\ workers = [made |-> 0, live |-> {}, closing |-> {}]
    /\ stop = "idle"
    /\ closer = [pc |-> "idle", w |-> 0]
    /\ docker = dk

\* The sockets have passed the handshake (one connection of alice, two of bob).
AllConnected ==
    /\ user = [s \in Sockets |-> IF s = "s1" THEN "alice" ELSE "bob"]
    /\ hs = [s \in Sockets |-> Connected(user[s])]
    /\ usersTable = Users

\* The server has started on a migrated, empty database.
Init ==
    /\ env \in [prune : BOOLEAN, r2 : {"on", "partial", "off"}]
    /\ AllConnected
    /\ FreshExec(ReadyDocker)
    /\ docState = [exists |-> FALSE, latest_snapshot_seq |-> 0,
                   latest_snapshot_r2_key |-> NoKey, latest_update_seq |-> 0]
    /\ document_updates = {}
    /\ rowLock = 0
    /\ documents = [exists |-> FALSE, share_status |-> "private", link_share_token_hash |-> NoHash]
    /\ create = IdleCreate
    /\ document_members = [u \in Users |-> NoRole]
    /\ r2Objects = {}
    /\ cache = NewCache
    /\ load = IdleLoad
    /\ microQ = <<>>
    /\ rooms = {}
    /\ docs = [s \in Sockets |-> NoRole]
    /\ inbox = [s \in Sockets |-> <<>>]
    /\ join = [s \in Sockets |-> IdleJoin]
    /\ upd = [u \in UpdIds |-> IdleUpd]
    /\ rot = [r \in RotIds |-> IdleRot]
    /\ restarts = 0
    /\ hist = [committed |-> {}, marked |-> {}, stored |-> {}, lastStored |-> NoToken,
               lastMode |-> "view", joins |-> 0, inits |-> {}, loads |-> 0,
               presence |-> 0, relayed |-> {},
               presented |-> [s \in Sockets |-> {}]]

\* Handlers run to their next await before any other event is taken, and the
\* continuations queued by a settled promise run before any new event.
Macro == microQ = <<>>

\* ------------------------------------------------- documents.js (HTTP API)
\* createDocumentForUser, its statements in order: 1 insert into documents,
\* 2 insert into document_state, 3 insert into document_members, with initial
\* bytes 4 insert into document_updates (seq 1) and 5 update latest_update_seq,
\* and 6 commit.
Statements(withInitial) == IF withInitial THEN {1, 2, 3, 4, 5, 6} ELSE {1, 2, 3, 6}

\* createDocumentForUser, one transaction: documents, document_state and owner
\* membership rows, and the initial update as seq 1 when bytes are given.
CreateDocument(withInitial) ==
    /\ Macro
    /\ ~docState.exists
    /\ create.pc = "idle"
    /\ create' = [create EXCEPT !.pc = "returned", !.withInitial = withInitial]
    /\ documents' = [exists |-> TRUE, share_status |-> "private", link_share_token_hash |-> NoHash]
    /\ document_members' = [document_members EXCEPT ![OwnerUser] = "owner"]
    /\ IF withInitial
       THEN /\ document_updates' = InsertUpdate(document_updates, 1, InitialUpdate)
            /\ docState' = [exists |-> TRUE, latest_snapshot_seq |-> 0,
                            latest_snapshot_r2_key |-> NoKey, latest_update_seq |-> 1]
            /\ hist' = [hist EXCEPT !.committed = @ \cup {[seq |-> 1, update |-> InitialUpdate]}]
       ELSE /\ document_updates' = document_updates
            /\ docState' = [exists |-> TRUE, latest_snapshot_seq |-> 0,
                            latest_snapshot_r2_key |-> NoKey, latest_update_seq |-> 0]
            /\ hist' = hist
    /\ UNCHANGED <<execVars, authVars, env, user, rowLock, r2Objects, cacheVars, sockVars, join, upd, rot, restarts>>

\* Faulty variant: the statements run without a transaction, so the rows
\* written before the failing statement stay.
CreateDocumentFailKeeps(withInitial, step) ==
    /\ Macro
    /\ ~docState.exists
    /\ create.pc = "idle"
    /\ step \in Statements(withInitial)
    /\ create' = [pc |-> "failed", withInitial |-> withInitial, failedAt |-> step]
    /\ documents' = [documents EXCEPT !.exists = step > 1]
    /\ docState' = [docState EXCEPT !.exists = step > 2,
                                    !.latest_update_seq = IF step > 5 THEN 1 ELSE 0]
    /\ document_members' = [document_members EXCEPT
                               ![OwnerUser] = IF step > 3 THEN "owner" ELSE NoRole]
    /\ document_updates' = IF step > 4
                           THEN InsertUpdate(document_updates, 1, InitialUpdate)
                           ELSE document_updates
    /\ hist' = IF step > 4
               THEN [hist EXCEPT !.committed = @ \cup {[seq |-> 1, update |-> InitialUpdate]}]
               ELSE hist
    /\ UNCHANGED <<execVars, authVars, env, user, rowLock, r2Objects, cacheVars, sockVars, join, upd, rot, restarts>>

\* createDocumentForUser when the statement `step` fails: catch, rollback, and
\* the error is thrown to the route.  Nothing the transaction wrote is kept.
CreateDocumentFail(withInitial, step) ==
    /\ Macro
    /\ ~docState.exists
    /\ create.pc = "idle"
    /\ step \in Statements(withInitial)
    /\ create' = [pc |-> "failed", withInitial |-> withInitial, failedAt |-> step]
    /\ UNCHANGED <<execVars, authVars, env, user, dbVars, r2Objects, cacheVars, sockVars, join, upd, rot,
                   restarts, hist>>

\* rotateShareLink up to its first await: getMemberRole, then 403 unless owner.
RotStart(r, usr, mode) ==
    /\ Macro
    /\ rot[r].pc = "idle"
    /\ \A q \in RotIds : q < r => rot[q].pc # "idle"
    /\ rot' = [rot EXCEPT ![r] = IF document_members[usr] = "owner"
                                  THEN [pc |-> "update", user |-> usr, mode |-> mode]
                                  ELSE [IdleRot EXCEPT !.pc = "forbidden"]]
    /\ UNCHANGED <<execVars, authVars, create, env, user, dbVars, r2Objects, cacheVars, sockVars, join, upd, restarts, hist>>

\* rotateShareLink: the UPDATE storing share_status and the hash of the new token.
RotUpdate(r) ==
    /\ Macro
    /\ rot[r].pc = "update"
    /\ documents' = [documents EXCEPT !.share_status = ShareStatusFor(rot[r].mode),
                                      !.link_share_token_hash = Sha256Hex(r)]
    /\ rot' = [rot EXCEPT ![r] = [IdleRot EXCEPT !.pc = "done"]]
    /\ hist' = [hist EXCEPT !.stored = @ \cup {r}, !.lastStored = r,
                            !.lastMode = rot[r].mode]
    /\ UNCHANGED <<execVars, authVars, create, env, user, docState, document_updates, rowLock, document_members,
                   r2Objects, cacheVars, sockVars, join, upd, restarts>>

\* ------------------------------------------------------- r2/snapshots.js
\* PutObject: the object stored under the key is replaced
PutObject(objs, key, bytes) ==
    {o \in objs : o.key # key} \cup {[key |-> key, bytes |-> bytes]}

HasObject(objs, key) == \E o \in objs : o.key = key
ObjectBytes(objs, key) == (CHOOSE o \in objs : o.key = key).bytes

\* ------------------------------------------------ index.js ensureCacheLoaded
\* The body of cache.loadPromise: await getDocumentState.
LoadState ==
    /\ Macro
    /\ load.pc = "state"
    /\ load' = [load EXCEPT
                  !.snapshotSeq = IF docState.exists THEN docState.latest_snapshot_seq ELSE 0,
                  !.key = IF docState.exists THEN docState.latest_snapshot_r2_key ELSE NoKey,
                  !.pc = IF docState.exists /\ docState.latest_snapshot_r2_key # NoKey
                         THEN "snap" ELSE "tail"]
    /\ UNCHANGED <<execVars, authVars, create, env, user, dbVars, r2Objects, cache, microQ, sockVars, join, upd, rot,
                   restarts, hist>>

\* await downloadSnapshotBytes: null when storage is not configured.
LoadSnap ==
    /\ Macro
    /\ load.pc = "snap"
    /\ IsR2Configured => HasObject(r2Objects, load.key)
    /\ load' = [load EXCEPT
                  !.hasSnap = IsR2Configured,
                  !.snapshot = IF IsR2Configured THEN ObjectBytes(r2Objects, load.key) ELSE {},
                  !.pc = "tail"]
    /\ UNCHANGED <<execVars, authVars, create, env, user, dbVars, r2Objects, cache, microQ, sockVars, join, upd, rot,
                   restarts, hist>>

\* await fetchUpdatesAfter(afterSeq: snapshotBytes ? snapshotSeq : 0)
LoadTail ==
    /\ Macro
    /\ load.pc = "tail"
    /\ load' = [load EXCEPT
                  !.updates = FetchUpdatesAfter(document_updates,
                                  IF load.hasSnap THEN load.snapshotSeq ELSE 0),
                  !.pc = "finish"]
    /\ UNCHANGED <<execVars, authVars, create, env, user, dbVars, r2Objects, cache, microQ, sockVars, join, upd, rot,
                   restarts, hist>>

\* The state the load leaves in the cache entry (lines 129-135).
LoadedCache(l) ==
    LET snapSeq == IF l.hasSnap THEN l.snapshotSeq ELSE 0
    IN [doc |-> (IF l.hasSnap THEN l.snapshot ELSE {}) \cup UpdatesOf(Range(l.updates)),
        loaded |-> TRUE,
        loadPromise |-> "none",
        lastSeqApplied |-> IF Len(l.updates) > 0 THEN l.updates[Len(l.updates)].seq
                           ELSE snapSeq,
        lastSnapshotSeq |-> snapSeq,
        pendingUpdates |-> 0,
        elapsed |-> FALSE]

\* The load resolves: the cache is filled and marked loaded, and the handlers
\* awaiting the promise are resumed in the order they called ensureCacheLoaded.
LoadFinish ==
    /\ Macro
    /\ load.pc = "finish"
    /\ cache' = LoadedCache(load)
    /\ microQ' = load.waiters
    /\ load' = IdleLoad
    /\ UNCHANGED <<execVars, authVars, create, env, user, dbVars, r2Objects, sockVars, join, upd, rot, restarts, hist>>

\* A request of the load throws (database or storage error, missing object):
\* the promise rejects and stays in cache.loadPromise; every handler awaiting
\* it lands in its catch block.
LoadFail ==
    /\ Macro
    /\ load.pc \in {"state", "snap", "tail"}
    /\ cache' = [cache EXCEPT !.loadPromise = "rejected"]
    /\ upd' = [u \in UpdIds |-> IF u \in Range(load.waiters)
                                THEN [upd[u] EXCEPT !.pc = "caught"] ELSE upd[u]]
    /\ load' = IdleLoad
    /\ UNCHANGED <<execVars, authVars, create, env, user, dbVars, r2Objects, microQ, sockVars, join, rot, restarts, hist>>

\* ------------------------------------------------- index.js yjs-update handler
\* Lines 325-371 up to the next await: apply to the cache, count, broadcast to
\* the other sockets of the room, evaluate the snapshot policy and encode.
Continue(u) ==
    LET c1 == [cache EXCEPT !.doc = @ \cup {u},
                            !.lastSeqApplied = Max(@, upd[u].seq),
                            !.pendingUpdates = @ + 1]
        snap == ShouldSnapshot(c1) /\ R2Env
    IN /\ cache' = c1
       /\ inbox' = EmitToOthers(inbox, rooms, upd[u].sender, UpdateMsg(upd[u].seq, u))
       /\ upd' = [upd EXCEPT ![u].pc = IF snap THEN "upload" ELSE "done",
                             ![u].snap = IF snap THEN c1.doc ELSE {}]

\* socket.on('yjs-update'): the guards, then appendUpdate up to `begin`.
UpdStart(u, s) ==
    /\ Macro
    /\ hs[s].pc = "connected"
    /\ upd[u].pc = "idle"
    /\ \A q \in UpdIds : q < u => upd[q].pc # "idle"
    /\ upd' = [upd EXCEPT ![u] = [IdleUpd EXCEPT
                  !.sender = s, !.role = docs[s],
                  !.pc = IF docs[s] # NoRole /\ CanEdit(docs[s]) THEN "begin" ELSE "dropped"]]
    /\ UNCHANGED <<execVars, authVars, create, env, user, dbVars, r2Objects, cacheVars, sockVars, join, rot, restarts, hist>>

\* appendUpdate: select latest_update_seq ... for update (waits for the row lock);
\* 404 document_state_missing when there is no row.
AppendLock(u) ==
    /\ Macro
    /\ upd[u].pc = "begin"
    /\ rowLock = 0
    /\ IF docState.exists
       THEN /\ rowLock' = u
            /\ upd' = [upd EXCEPT ![u].pc = "tx",
                                  ![u].nextSeq = NextSeq(docState.latest_update_seq)]
       ELSE /\ rowLock' = rowLock
            /\ upd' = [upd EXCEPT ![u].pc = "failed"]
    /\ UNCHANGED <<execVars, authVars, create, env, user, docState, document_updates, documents, document_members,
                   r2Objects, cacheVars, sockVars, join, rot, restarts, hist>>

\* appendUpdate: insert the row, set latest_update_seq, commit.
AppendCommit(u) ==
    /\ Macro
    /\ upd[u].pc = "tx"
    /\ upd[u].nextSeq \notin SeqsOf(document_updates)   \* document_updates_pk
    /\ document_updates' = InsertUpdate(document_updates, upd[u].nextSeq, u)
    /\ docState' = [docState EXCEPT !.latest_update_seq = upd[u].nextSeq]
    /\ rowLock' = IF rowLock = u THEN 0 ELSE rowLock
    /\ upd' = [upd EXCEPT ![u].pc = "appended", ![u].seq = AppendReturn(upd[u].nextSeq)]
    /\ hist' = [hist EXCEPT !.committed = @ \cup {[seq |-> upd[u].nextSeq, update |-> u]}]
    /\ UNCHANGED <<execVars, authVars, create, env, user, documents, document_members, r2Objects, cacheVars, sockVars,
                   join, rot, restarts>>

\* Faulty variant: the failed transaction is committed instead of rolled back.
AppendNoRollback(u) ==
    /\ Macro
    /\ upd[u].pc = "tx"
    /\ upd[u].nextSeq \notin SeqsOf(document_updates)
    /\ document_updates' = InsertUpdate(document_updates, upd[u].nextSeq, u)
    /\ docState' = [docState EXCEPT !.latest_update_seq = upd[u].nextSeq]
    /\ rowLock' = IF rowLock = u THEN 0 ELSE rowLock
    /\ upd' = [upd EXCEPT ![u].pc = "failed"]
    /\ UNCHANGED <<execVars, authVars, create, env, user, documents, document_members, r2Objects, cacheVars, sockVars,
                   join, rot, restarts, hist>>

\* appendUpdate: a statement fails, the transaction is rolled back and the error
\* is thrown into the handler's catch block (lines 379-384).
AppendRollback(u) ==
    /\ Macro
    /\ upd[u].pc = "tx"
    /\ rowLock' = IF rowLock = u THEN 0 ELSE rowLock
    /\ upd' = [upd EXCEPT ![u].pc = "failed"]
    /\ UNCHANGED <<execVars, authVars, create, env, user, docState, document_updates, documents, document_members,
                   r2Objects, cacheVars, sockVars, join, rot, restarts, hist>>

\* Faulty variant: ensureCacheLoaded does not look at cache.loadPromise, so a
\* call made while a load is pending starts a load of its own.
UpdAfterAppendNoPromise(u) ==
    /\ Macro
    /\ upd[u].pc = "appended"
    /\ IF cache.loaded
       THEN /\ Continue(u)
            /\ UNCHANGED <<load, microQ, hist>>
       ELSE /\ cache' = [cache EXCEPT !.loadPromise = "pending"]
            /\ load' = [IdleLoad EXCEPT !.pc = "state", !.waiters = <<u>>]
            /\ upd' = [upd EXCEPT ![u].pc = "awaitLoad"]
            /\ hist' = [hist EXCEPT !.loads = @ + 1]
            /\ UNCHANGED <<microQ, inbox>>
    /\ UNCHANGED <<execVars, authVars, create, env, user, dbVars, r2Objects, rooms, docs, join, rot, restarts>>

\* The append has returned seq: await ensureCacheLoaded(documentId).  hist.loads
\* counts the loads the running process has started.
UpdAfterAppend(u) ==
    /\ Macro
    /\ upd[u].pc = "appended"
    /\ IF cache.loaded
       THEN /\ Continue(u)
            /\ UNCHANGED <<load, microQ, hist>>
       ELSE IF cache.loadPromise = "rejected"
       THEN /\ upd' = [upd EXCEPT ![u].pc = "caught"]
            /\ UNCHANGED <<cache, load, microQ, inbox, hist>>
       ELSE IF cache.loadPromise = "pending"
       THEN /\ load' = [load EXCEPT !.waiters = Append(@, u)]
            /\ upd' = [upd EXCEPT ![u].pc = "awaitLoad"]
            /\ UNCHANGED <<cache, microQ, inbox, hist>>
       ELSE /\ cache' = [cache EXCEPT !.loadPromise = "pending"]
            /\ load' = [IdleLoad EXCEPT !.pc = "state", !.waiters = <<u>>]
            /\ upd' = [upd EXCEPT ![u].pc = "awaitLoad"]
            /\ hist' = [hist EXCEPT !.loads = @ + 1]
            /\ UNCHANGED <<microQ, inbox>>
    /\ UNCHANGED <<execVars, authVars, create, env, user, dbVars, r2Objects, rooms, docs, join, rot, restarts>>

\* A handler that awaited the load runs on, in its turn.
UpdResume(u) ==
    /\ microQ # <<>>
    /\ Head(microQ) = u
    /\ microQ' = Tail(microQ)
    /\ Continue(u)
    /\ UNCHANGED <<execVars, authVars, create, env, user, dbVars, r2Objects, load, rooms, docs, join, rot, restarts, hist>>

\* await uploadSnapshot: null when storage is not configured, else PutObject.
SnapUpload(u) ==
    /\ Macro
    /\ upd[u].pc = "upload"
    /\ IF IsR2Configured
       THEN /\ r2Objects' = PutObject(r2Objects, SnapshotKey(upd[u].seq), upd[u].snap)
            /\ upd' = [upd EXCEPT ![u].pc = "mark"]
       ELSE /\ r2Objects' = r2Objects
            /\ upd' = [upd EXCEPT ![u].pc = "done"]
    /\ UNCHANGED <<execVars, authVars, create, env, user, dbVars, cacheVars, sockVars, join, rot, restarts, hist>>

\* Faulty variant: the catch block resets the counters as after a snapshot.
SnapFailResets(u) ==
    /\ Macro
    /\ upd[u].pc \in {"upload", "mark"}
    /\ upd[u].pc = "upload" => IsR2Configured
    /\ cache' = [cache EXCEPT !.lastSnapshotSeq = upd[u].seq,
                              !.pendingUpdates = 0,
                              !.elapsed = FALSE]
    /\ upd' = [upd EXCEPT ![u].pc = "done"]
    /\ UNCHANGED <<execVars, authVars, create, env, user, dbVars, r2Objects, load, microQ, sockVars, join, rot,
                   restarts, hist>>

\* uploadSnapshot or markSnapshot throws: warn and go on without a snapshot.
SnapFail(u) ==
    /\ Macro
    /\ upd[u].pc \in {"upload", "mark"}
    /\ upd[u].pc = "upload" => IsR2Configured
    /\ upd' = [upd EXCEPT ![u].pc = "done"]
    /\ UNCHANGED <<execVars, authVars, create, env, user, dbVars, r2Objects, cacheVars, sockVars, join, rot, restarts, hist>>

\* updates.js markSnapshot, one transaction: set the snapshot pointer and key
\* (the UPDATE takes the row lock), delete the rows up to it when pruning.
MarkSnapshot(u) ==
    /\ Macro
    /\ upd[u].pc = "mark"
    /\ rowLock = 0
    /\ docState' = [docState EXCEPT !.latest_snapshot_seq = upd[u].seq,
                                    !.latest_snapshot_r2_key = SnapshotKey(upd[u].seq)]
    /\ document_updates' = PruneRows(document_updates, upd[u].seq, env.prune)
    /\ upd' = [upd EXCEPT ![u].pc = "marked"]
    /\ hist' = [hist EXCEPT !.marked = @ \cup {upd[u].seq}]
    /\ UNCHANGED <<execVars, authVars, create, env, user, rowLock, documents, document_members, r2Objects, cacheVars,
                   sockVars, join, rot, restarts>>

\* markSnapshot has returned: lines 364-366.
SnapDone(u) ==
    /\ Macro
    /\ upd[u].pc = "marked"
    /\ cache' = [cache EXCEPT !.lastSnapshotSeq = upd[u].seq,
                              !.pendingUpdates = 0,
                              !.elapsed = FALSE]
    /\ upd' = [upd EXCEPT ![u].pc = "done"]
    /\ UNCHANGED <<execVars, authVars, create, env, user, dbVars, r2Objects, load, microQ, sockVars, join, rot,
                   restarts, hist>>

\* SNAPSHOT_EVERY_MS pass since cache.lastSnapshotAt. Only the policy of a
\* handler that has not applied its update yet reads the clock, so the clock
\* stops when no such handler is left.
Tick ==
    /\ Macro
    /\ cache.loaded
    /\ ~cache.elapsed
    /\ \E u \in UpdIds : upd[u].pc \in {"idle", "begin", "tx", "appended"}
    /\ cache' = [cache EXCEPT !.elapsed = TRUE]
    /\ UNCHANGED <<execVars, authVars, create, env, user, dbVars, r2Objects, load, microQ, sockVars, join, upd, rot,
                   restarts, hist>>

\* ----------------------------------------------- index.js join-document handler
\* socket.on('join-document') up to its first await: getMemberRole.  When no
\* membership row is found validateLinkToken runs: null at once without a token,
\* else await getShareInfo.
JoinStart(s, tok) ==
    /\ Macro
    /\ hs[s].pc = "connected"
    /\ join[s].pc \in {"idle", "done"}
    /\ hist.joins < MaxJoins
    /\ LET role == document_members[user[s]]
           share == role = NoRole /\ tok # NoToken
       IN join' = [join EXCEPT ![s] = [IdleJoin EXCEPT
                     !.token = IF share THEN tok ELSE NoToken,
                     !.role = role,
                     !.before = UpdatesOf(hist.committed),
                     !.pc = IF share THEN "share" ELSE "authz"]]
    /\ hist' = [hist EXCEPT !.joins = @ + 1,
                            !.presented[s] = IF tok = NoToken THEN @ ELSE @ \cup {tok}]
    /\ UNCHANGED <<execVars, authVars, create, env, user, dbVars, r2Objects, cacheVars, sockVars, upd, rot, restarts>>

\* validateLinkToken: getShareInfo reads the documents row.
JoinShare(s) ==
    /\ Macro
    /\ join[s].pc = "share"
    /\ join' = [join EXCEPT ![s].role = IF docState.exists
                                        THEN ValidateLinkToken(documents, join[s].token)
                                        ELSE NoRole,
                            ![s].token = NoToken,
                            ![s].pc = "authz"]
    /\ UNCHANGED <<execVars, authVars, create, env, user, dbVars, r2Objects, cacheVars, sockVars, upd, rot, restarts, hist>>

\* Lines 201-214: 'forbidden' without a role; else socket.join, the role is
\* recorded in socket.data.docs, the sockets already in the room are asked to
\* resend their awareness state, and getDocumentState is requested.
JoinAuthz(s) ==
    /\ Macro
    /\ join[s].pc = "authz"
    /\ IF join[s].role = NoRole
       THEN /\ inbox' = EmitTo(inbox, s, ErrorMsg("forbidden"))
            /\ join' = [join EXCEPT ![s] = JoinReturned(join[s])]
            /\ UNCHANGED <<rooms, docs>>
       ELSE /\ rooms' = rooms \cup {s}
            /\ docs' = [docs EXCEPT ![s] = join[s].role]
            /\ join' = [join EXCEPT ![s].pc = "state", ![s].role = NoRole]
            /\ inbox' = EmitToOthers(inbox, rooms, s, AwarenessRequestMsg)
    /\ UNCHANGED <<execVars, authVars, create, env, user, dbVars, r2Objects, cacheVars, upd, rot, restarts, hist>>

\* await getDocumentState
JoinState(s) ==
    /\ Macro
    /\ join[s].pc = "state"
    /\ join' = [join EXCEPT
                  ![s].snapshotSeq = IF docState.exists THEN docState.latest_snapshot_seq ELSE 0,
                  ![s].key = IF docState.exists THEN docState.latest_snapshot_r2_key ELSE NoKey,
                  ![s].pc = IF docState.exists /\ docState.latest_snapshot_r2_key # NoKey
                            THEN "snap" ELSE "tail"]
    /\ UNCHANGED <<execVars, authVars, create, env, user, dbVars, r2Objects, cacheVars, sockVars, upd, rot, restarts, hist>>

\* await downloadSnapshotBytes({ key: state.latestSnapshotR2Key })
JoinSnap(s) ==
    /\ Macro
    /\ join[s].pc = "snap"
    /\ IsR2Configured => HasObject(r2Objects, join[s].key)
    /\ join' = [join EXCEPT
                  ![s].hasSnap = IsR2Configured,
                  ![s].snapshot = IF IsR2Configured
                                  THEN ObjectBytes(r2Objects, join[s].key) ELSE {},
                  ![s].pc = "tail"]
    /\ UNCHANGED <<execVars, authVars, create, env, user, dbVars, r2Objects, cacheVars, sockVars, upd, rot, restarts, hist>>

\* Lines 238-241: full replay when the pointer is set and no bytes were fetched.
EffectiveSnapshotSeq(hasSnap, snapshotSeq) ==
    IF ~hasSnap /\ snapshotSeq > 0 THEN 0 ELSE snapshotSeq

\* await fetchUpdatesAfter({ documentId, afterSeq: effectiveSnapshotSeq })
JoinTail(s) ==
    /\ Macro
    /\ join[s].pc = "tail"
    /\ join' = [join EXCEPT
                  ![s].updates = FetchUpdatesAfter(document_updates,
                                     EffectiveSnapshotSeq(join[s].hasSnap, join[s].snapshotSeq)),
                  ![s].pc = "init"]
    /\ UNCHANGED <<execVars, authVars, create, env, user, dbVars, r2Objects, cacheVars, sockVars, upd, rot, restarts, hist>>

\* safeEmit('doc-init', { snapshot, snapshotSeq: effectiveSnapshotSeq, updates })
JoinInit(s) ==
    /\ Macro
    /\ join[s].pc = "init"
    /\ inbox' = EmitTo(inbox, s,
                   DocInitMsg(join[s].hasSnap, join[s].snapshot,
                              EffectiveSnapshotSeq(join[s].hasSnap, join[s].snapshotSeq),
                              join[s].updates))
    /\ join' = [join EXCEPT ![s] = JoinReturned(join[s])]
    /\ hist' = [hist EXCEPT !.inits = @ \cup
                   {[before |-> join[s].before,
                     got |-> (IF join[s].hasSnap THEN join[s].snapshot ELSE {})
                             \cup UpdatesOf(Range(join[s].updates))]}]
    /\ UNCHANGED <<execVars, authVars, create, env, user, dbVars, r2Objects, cacheVars, rooms, docs, upd, rot, restarts>>

\* A request of the handler throws: catch, safeEmit('error', 'join_failed').
JoinFail(s) ==
    /\ Macro
    /\ join[s].pc \in {"share", "state", "snap", "tail"}
    /\ join[s].pc = "snap" => IsR2Configured
    /\ inbox' = EmitTo(inbox, s, ErrorMsg("join_failed"))
    /\ join' = [join EXCEPT ![s] = JoinReturned(join[s])]
    /\ UNCHANGED <<execVars, authVars, create, env, user, dbVars, r2Objects, cacheVars, rooms, docs, upd, rot, restarts, hist>>

\* --------------------------------------------- index.js awareness-update handler
\* The documentId values a client may send: the document, and another document
\* of the server, which s3 has joined as well.
TheDocument == "doc"
OtherDocument == "other"
DocumentIds == {TheDocument, OtherDocument}

\* io.sockets.adapter.rooms.get(documentId)
RoomOf(d) == IF d = TheDocument THEN rooms ELSE {"s3"}

\* Faulty variant: the handler does not look at socket.data.docs.
DocInfoAny(s, d) == TRUE

\* socket.data.docs?.[documentId]
DocInfo(s, d) == IF d = TheDocument THEN docs[s] # NoRole ELSE s = "s3"

\* socket.on('awareness-update'): relay to the other sockets of the room when a
\* role is recorded for the document; nothing is stored.
AwarenessUpdate(s, d) ==
    /\ Macro
    /\ hs[s].pc = "connected"
    /\ hist.presence < MaxPresence
    /\ LET to == IF DocInfo(s, d) THEN RoomOf(d) \ {s} ELSE {}
       IN /\ inbox' = IF DocInfo(s, d)
                      THEN EmitToOthers(inbox, RoomOf(d), s, AwarenessMsg(d, s))
                      ELSE inbox
          /\ hist' = [hist EXCEPT !.presence = @ + 1,
                                  !.relayed = @ \cup {<<s, t>> : t \in to}]
    /\ UNCHANGED <<execVars, authVars, create, env, user, dbVars, r2Objects, cacheVars, rooms, docs, join,
                   upd, rot, restarts>>

\* socket.on('leave-document') of a socket in the room: socket.leave, then
\* 'user-left' to the sockets left in the room.  socket.data.docs is not touched.
LeaveDocument(s) ==
    /\ Macro
    /\ hs[s].pc = "connected"
    /\ s \in rooms
    /\ join[s].pc \in {"idle", "done"}
    /\ rooms' = rooms \ {s}
    /\ inbox' = EmitToOthers(inbox, rooms \ {s}, s, UserLeftMsg(s))
    /\ UNCHANGED <<execVars, authVars, create, env, user, dbVars, r2Objects, cacheVars, docs, join, upd, rot,
                   restarts, hist>>

\* The events of the relay handlers, lines 387-510.
RelayEvents ==
    {"send-message", "typing-start", "typing-stop", "document-operation",
     "cursor-position", "content-change", "selection-change"}

\* The event a relay handler emits to the room.
EmittedAs(ev) ==
    IF ev = "send-message" THEN "message-received"
    ELSE IF ev = "cursor-position" THEN "cursor-updated"
    ELSE ev

RelayMsg(ev, sender) ==
    [type |-> EmittedAs(ev), seq |-> 0, update |-> 0, snapshot |-> {},
     hasSnapshot |-> FALSE, updates |-> <<>>, message |-> "", from |-> sender]

\* socket.on(ev) for the relay events: socket.to(documentId).emit(...) with
\* the documentId of the payload; socket.data.docs is not read.
RelayMessage(s, ev) ==
    /\ Macro
    /\ hs[s].pc = "connected"
    /\ hist.presence < MaxPresence
    /\ inbox' = EmitToOthers(inbox, rooms, s, RelayMsg(ev, s))
    /\ hist' = [hist EXCEPT !.presence = @ + 1]
    /\ UNCHANGED <<execVars, authVars, create, env, user, dbVars, r2Objects, cacheVars, rooms, docs, join,
                   upd, rot, restarts>>

\* The client of socket s disconnects: the socket leaves its rooms and is
\* discarded with its socket.data; the 'disconnect' handler only logs.  The
\* client may connect again with a new socket.
Disconnect(s) ==
    /\ Macro
    /\ hs[s].pc = "connected"
    /\ join[s].pc \in {"idle", "done"}
    /\ \A u \in UpdIds : upd[u].sender = s => upd[u].pc \in {"done", "dropped", "failed", "caught", "killed"}
    /\ hs' = [hs EXCEPT ![s] = IdleHs]
    /\ user' = [user EXCEPT ![s] = NoUser]
    /\ rooms' = rooms \ {s}
    /\ docs' = [docs EXCEPT ![s] = NoRole]
    /\ inbox' = [inbox EXCEPT ![s] = <<>>]
    /\ join' = [join EXCEPT ![s] = IdleJoin]
    /\ UNCHANGED <<execVars, usersTable, create, env, dbVars, r2Objects, cacheVars, upd, rot, restarts, hist>>

\* ------------------------------------------- auth/middleware.js socketClerkAuth
\* A client opens a socket presenting `token` (handshake.auth.token or the
\* Authorization header).  Without a token the middleware calls
\* next(Error('unauthorized')) at once; otherwise it awaits verifyClerkJwt.
HandshakeStart(s, token) ==
    /\ Macro
    /\ hs[s].pc = "idle"
    /\ hs' = [hs EXCEPT ![s] = [pc |-> IF token = NoJwt THEN "refused" ELSE "verify",
                                jwt |-> token]]
    /\ UNCHANGED <<usersTable, user, collabVars, execVars>>

\* verifyClerkJwt has settled: a rejected token is caught and the connection
\* refused; for a verified one the middleware awaits upsertUserByClerkId.
HandshakeVerify(s) ==
    /\ Macro
    /\ hs[s].pc = "verify"
    /\ hs' = [hs EXCEPT ![s].pc = IF VerifyClerkJwt(hs[s].jwt) THEN "upsert" ELSE "refused"]
    /\ UNCHANGED <<usersTable, user, collabVars, execVars>>

\* The upsert has committed and returned the user row: socket.data.user is set
\* and next() lets the connection through.
HandshakeUpsert(s) ==
    /\ Macro
    /\ hs[s].pc = "upsert"
    /\ usersTable' = usersTable \cup {UserOfJwt(hs[s].jwt)}
    /\ user' = [user EXCEPT ![s] = UserOfJwt(hs[s].jwt)]
    /\ hs' = [hs EXCEPT ![s].pc = "connected"]
    /\ UNCHANGED <<collabVars, execVars>>

\* The key set cannot be fetched or the database fails: the catch block
\* refuses the connection.
HandshakeFail(s) ==
    /\ Macro
    /\ hs[s].pc \in {"verify", "upsert"}
    /\ hs' = [hs EXCEPT ![s].pc = "refused"]
    /\ UNCHANGED <<usersTable, user, collabVars, execVars>>

\* ------------------------------------------------ http.js ExecutionQueue.enqueue
\* ensureWorkerInitialized when it creates the Worker: new Worker(...),
\* workerInitialized = true, resetInactivityTimer().
NewWorker ==
    /\ workers.made < MaxWorkers
    /\ worker' = workers.made + 1
    /\ workers' = [workers EXCEPT !.made = @ + 1, !.live = @ \cup {workers.made + 1}]
    /\ workerInitialized' = TRUE
    /\ inactivityTimeout' = TRUE
    /\ UNCHANGED <<shuttingDown, stop, closer>>

\* RateLimiter.checkLimit up to its first await: now = Date.now(); the script
\* is loaded first when scriptSha is not set, else evalsha is sent.
CheckLimitSend(c, u) ==
    /\ req' = [req EXCEPT ![c] = [pc |-> IF scriptSha THEN "eval" ELSE "load",
                                  user |-> u, now |-> clock, reason |-> "none"]]
    /\ redisQ' = Append(redisQ, [op |-> IF scriptSha THEN "EVALSHA" ELSE "LOAD", c |-> c])

\* POST /api/execute of user u with valid language and code, no documentId:
\* enqueue runs ensureWorkerInitialized, which returns at once, waits 50 ms
\* during a shutdown, or creates the Worker; then checkLimit starts.
EnqStart(c, u) ==
    /\ Macro
    /\ req[c].pc = "idle"
    /\ IF c = 1 THEN TRUE ELSE req[c - 1].pc # "idle"
    /\ IF workerInitialized
       THEN CheckLimitSend(c, u) /\ UNCHANGED workerVars
       ELSE IF shuttingDown
            THEN /\ req' = [req EXCEPT ![c] = [IdleReq EXCEPT !.pc = "ensureWait", !.user = u]]
                 /\ UNCHANGED <<workerVars, redisQ>>
            ELSE CheckLimitSend(c, u) /\ NewWorker
    /\ UNCHANGED <<clock, bucket, scriptSha, scriptCached, jobs, docker, serverVars>>

\* ensureWorkerInitialized after its 50 ms wait: it returns when the shutdown
\* is still running or a Worker exists, else creates the Worker.
EnsureResume(c) ==
    /\ Macro
    /\ req[c].pc = "ensureWait"
    /\ IF shuttingDown \/ workerInitialized
       THEN UNCHANGED workerVars
       ELSE NewWorker
    /\ CheckLimitSend(c, req[c].user)
    /\ UNCHANGED <<clock, bucket, scriptSha, scriptCached, jobs, docker, serverVars>>

\* The datastore runs SCRIPT LOAD of request c and the caller goes on:
\* scriptSha is set and evalsha is sent.
RedisLoad(c) ==
    /\ Macro
    /\ redisQ # <<>> /\ Head(redisQ) = [op |-> "LOAD", c |-> c]
    /\ closer.pc # "done"
    /\ scriptCached' = TRUE
    /\ scriptSha' = TRUE
    /\ req' = [req EXCEPT ![c].pc = "eval"]
    /\ redisQ' = Append(Tail(redisQ), [op |-> "EVALSHA", c |-> c])
    /\ UNCHANGED <<clock, bucket, jobs, workerVars, docker, serverVars>>

\* The datastore runs EVALSHA of request c.  NOSCRIPT: scriptSha is reset and
\* checkLimit is called again.  Else the script decides: a denied call makes
\* enqueue throw 'Rate limit exceeded', an allowed one goes on to queue.add.
RedisEval(c) ==
    /\ Macro
    /\ redisQ # <<>> /\ Head(redisQ) = [op |-> "EVALSHA", c |-> c]
    /\ closer.pc # "done"
    /\ IF ~scriptCached
       THEN /\ scriptSha' = FALSE
            /\ req' = [req EXCEPT ![c].pc = "load", ![c].now = clock]
            /\ redisQ' = Append(Tail(redisQ), [op |-> "LOAD", c |-> c])
            /\ UNCHANGED bucket
       ELSE LET r == CheckLimitScript(bucket[req[c].user], req[c].now, c)
            IN /\ bucket' = [bucket EXCEPT ![req[c].user] = r.entries]
               /\ req' = [req EXCEPT ![c].pc = IF r.allowed THEN "add" ELSE "limited",
                                     ![c].reason = IF r.allowed THEN "none" ELSE "exceeded"]
               /\ redisQ' = Tail(redisQ)
               /\ UNCHANGED scriptSha
    /\ UNCHANGED <<clock, scriptCached, jobs, workerVars, docker, serverVars>>

\* Faulty variant: the limiter lets the request through when the datastore fails.
CheckLimitFailedOpen == [pc |-> "add", reason |-> "unavailable"]

\* checkLimit's catch for an error other than NOSCRIPT: allowed = false with
\* the error text 'Rate limit service temporarily unavailable...'.
CheckLimitFailed == [pc |-> "limited", reason |-> "unavailable"]

\* The datastore cannot be reached: the command of request c is rejected and
\* enqueue throws the limiter's error.
RedisFail(c) ==
    /\ Macro
    /\ redisQ # <<>> /\ Head(redisQ).c = c
    /\ closer.pc = "done" \/ \A d \in ReqIds : req[d].reason # "unavailable"
    /\ redisQ' = Tail(redisQ)
    /\ req' = [req EXCEPT ![c].pc = CheckLimitFailed.pc, ![c].reason = CheckLimitFailed.reason]
    /\ UNCHANGED <<clock, bucket, scriptSha, scriptCached, jobs, workerVars, docker, serverVars>>

\* The datastore loses its script cache (SCRIPT FLUSH or a restart of it).
ScriptFlush ==
    /\ scriptCached
    /\ scriptCached' = FALSE
    /\ UNCHANGED <<clock, bucket, scriptSha, redisQ, req, jobs, workerVars, docker, serverVars>>

\* Time passes.
ClockTick ==
    /\ clock < MaxClock
    /\ clock' = clock + 1
    /\ UNCHANGED <<bucket, scriptSha, scriptCached, redisQ, req, jobs, workerVars, docker,
                   serverVars>>

\* queue.add has settled: the job waits in the queue, and enqueue re-arms the
\* inactivity timer when workerInitialized.  On a closed queue add rejects.
QueueAdd(c) ==
    /\ Macro
    /\ req[c].pc = "add"
    /\ IF closer.pc = "done"
       THEN /\ req' = [req EXCEPT ![c].pc = "failed"]
            /\ UNCHANGED <<jobs, inactivityTimeout>>
       ELSE /\ jobs' = [jobs EXCEPT ![c].state = "waiting"]
            /\ req' = [req EXCEPT ![c].pc = "polling"]
            /\ inactivityTimeout' = (inactivityTimeout \/ workerInitialized)
    /\ UNCHANGED <<rateVars, worker, workerInitialized, shuttingDown, workers, stop, closer,
                   docker, serverVars>>

\* Faulty variant: the route answers every thrown error with 400.
HttpStatusOff(r) ==
    IF r.pc \in {"limited", "failed", "lost", "timeout"} THEN 400
    ELSE IF r.pc = "done" THEN 200 ELSE 0

\* The status the route answers with: 429 when the error text holds
\* 'Rate limit', else 400; 200 with the result.
HttpStatus(r) ==
    IF r.pc = "limited" THEN 429
    ELSE IF r.pc \in {"failed", "lost", "timeout"} THEN 400
    ELSE IF r.pc = "done" THEN 200 ELSE 0

\* ------------------------------------------------------ http.js the Worker
ActiveBy(w) == {j \in ReqIds : jobs[j].state = "active" /\ jobs[j].by = w}

\* Faulty variant: a Worker takes jobs without regard to its concurrency.
HasCapacityAlways(w) == TRUE

\* Worker option concurrency: MAX_CONCURRENT_JOBS.
HasCapacity(w) == Cardinality(ActiveBy(w)) < MAX_CONCURRENT_JOBS

\* A live Worker that is not closing takes waiting job j and starts the
\* processor, which calls executePython or executeJava; the 'active' handler
\* re-arms the inactivity timer.
WorkerPick(j) ==
    /\ Macro
    /\ jobs[j].state = "waiting"
    /\ \E w \in workers.live \ workers.closing :
          /\ HasCapacity(w)
          /\ jobs' = [jobs EXCEPT ![j].state = "active", ![j].by = w, ![j].ran = RunsIn(docker)]
    /\ inactivityTimeout' = TRUE
    /\ UNCHANGED <<rateVars, req, worker, workerInitialized, shuttingDown, workers, stop,
                   closer, docker, serverVars>>

\* The processor returns: the job is completed and the retention of
\* removeOnComplete is applied; the 'completed' handler re-arms the timer.
JobComplete(j) ==
    /\ Macro
    /\ jobs[j].state = "active"
    /\ jobs' = KeepLast(jobs, j, "completed")
    /\ inactivityTimeout' = TRUE
    /\ UNCHANGED <<rateVars, req, worker, workerInitialized, shuttingDown, workers, stop,
                   closer, docker, serverVars>>

\* The processor throws: the job is failed and the retention of removeOnFail
\* is applied; the 'failed' handler re-arms the timer.
JobFail(j) ==
    /\ Macro
    /\ jobs[j].state = "active"
    /\ jobs' = KeepLast(jobs, j, "failed")
    /\ inactivityTimeout' = TRUE
    /\ UNCHANGED <<rateVars, req, worker, workerInitialized, shuttingDown, workers, stop,
                   closer, docker, serverVars>>

\* enqueue's poll loop reads job.getState(): 'completed' leads to getJob,
\* 'failed' to the throw of the failure; any other state keeps it polling.
Poll(c) ==
    /\ Macro
    /\ req[c].pc = "polling"
    /\ jobs[c].state \in {"completed", "failed"}
    /\ req' = [req EXCEPT ![c].pc = IF jobs[c].state = "completed" THEN "fetch" ELSE "failed"]
    /\ UNCHANGED <<rateVars, jobs, workerVars, docker, serverVars>>

\* queue.getJob has settled: the return value is read, or the job is gone and
\* enqueue throws 'Job was cleaned up before return value could be retrieved'.
PollFetch(c) ==
    /\ Macro
    /\ req[c].pc = "fetch"
    /\ req' = [req EXCEPT ![c].pc = IF jobs[c].state = "completed" THEN "done" ELSE "lost"]
    /\ UNCHANGED <<rateVars, jobs, workerVars, docker, serverVars>>

\* The poll loop has run for timeout + 10 s without seeing 'completed' or
\* 'failed': enqueue throws 'Execution timeout'.
PollTimeout(c) ==
    /\ Macro
    /\ req[c].pc = "polling"
    /\ jobs[c].state \notin {"completed", "failed"}
    /\ req' = [req EXCEPT ![c].pc = "timeout"]
    /\ UNCHANGED <<rateVars, jobs, workerVars, docker, serverVars>>

\* ------------------------------------------------ http.js the run of a job
Languages == {"python", "java"}

\* Exit codes of the sandboxed process: 0, or anything else.
ExitCodes == {0, 1}

\* The processor of active job j reads the language of the job data and calls
\* executePython or executeJava: the code is written to a file, the process is
\* spawned and the timeout timer is armed.
ExecutorSpawn(j, lang) ==
    /\ Macro
    /\ jobs[j].state = "active" /\ jobs[j].proc = "none"
    /\ jobs' = [jobs EXCEPT ![j].lang = lang, ![j].proc = "running"]
    /\ UNCHANGED <<rateVars, req, workerVars, docker, serverVars>>

\* Whether the 'close' handler of the run gets to its resolve().  The handler
\* of executePythonDocker calls clearTimeout(timeoutId) and then
\* clearTimeout(spawnTimeout); spawnTimeout is declared in executeJavaDocker
\* only, so the statement throws a ReferenceError out of the event handler
\* (logged by the process's uncaughtException handler) and resolve() is not
\* reached.  The handlers of executeJavaDocker and of the child-process
\* executors reach it.
CloseSettles(lang, ran) == ~(lang = "python" /\ ran = "container")

\* The process of job j exits with the given code before the timer fires.
\* When the handler settles, the executor's promise resolves with status
\* completed for code 0 and failed otherwise, the processor returns it and the
\* job is completed with that return value.  When it does not, the timer is
\* cleared already, the promise stays pending and the job stays active.
ProcessClose(j, code) ==
    /\ Macro
    /\ jobs[j].state = "active" /\ jobs[j].proc = "running"
    /\ IF CloseSettles(jobs[j].lang, jobs[j].ran)
       THEN /\ jobs' = KeepLast([jobs EXCEPT ![j].proc = "exited",
                                             ![j].result = IF code = 0 THEN "completed"
                                                           ELSE "failed"],
                                j, "completed")
            /\ inactivityTimeout' = TRUE
       ELSE /\ jobs' = [jobs EXCEPT ![j].proc = "exited"]
            /\ UNCHANGED inactivityTimeout
    /\ UNCHANGED <<rateVars, req, worker, workerInitialized, shuttingDown, workers, stop,
                   closer, docker, serverVars>>

\* Faulty variant: the timer kills the process and resolves with a result.
TimeoutResolves(js, j) ==
    KeepLast([js EXCEPT ![j].proc = "killed", ![j].result = "failed"], j, "completed")

\* The timeout timer of the run: the process is killed and the promise is
\* rejected with 'Execution timeout after <timeout>ms'; the executor rethrows
\* it as 'Execution failed: ...', the processor rethrows and the job is failed
\* with that reason.  The 'close' event of the killed process finds the
\* promise settled.
TimeoutRejects(js, j) ==
    KeepLast([js EXCEPT ![j].proc = "killed", ![j].reason = "timeout"], j, "failed")

\* The process of job j is still running when the timer fires.
ProcessTimeout(j) ==
    /\ Macro
    /\ jobs[j].state = "active" /\ jobs[j].proc = "running"
    /\ jobs' = TimeoutRejects(jobs, j)
    /\ inactivityTimeout' = TRUE
    /\ UNCHANGED <<rateVars, req, worker, workerInitialized, shuttingDown, workers, stop,
                   closer, docker, serverVars>>

\* -------------------------------------- http.js stopWorkerAfterInactivity
Busy == \E j \in ReqIds : jobs[j].state \in {"active", "waiting"}

\* The inactivity timer fires.  stopWorkerAfterInactivity returns when there
\* is no Worker or a shutdown is running; else it takes _shuttingDown and
\* awaits the job counts.
TimerFire ==
    /\ Macro
    /\ inactivityTimeout
    /\ stop = "idle"
    /\ inactivityTimeout' = FALSE
    /\ IF worker = 0 \/ ~workerInitialized \/ shuttingDown
       THEN UNCHANGED <<shuttingDown, stop>>
       ELSE shuttingDown' = TRUE /\ stop' = "counts1"
    /\ UNCHANGED <<rateVars, req, jobs, worker, workerInitialized, workers, closer, docker,
                   serverVars>>

\* The first counts arrive: with a job active or waiting the flag is released
\* and the timer re-armed; else the task waits 100 ms.  On a closed queue the
\* count rejects and only the finally block runs.
StopCounts1 ==
    /\ Macro
    /\ stop = "counts1"
    /\ IF closer.pc = "done"
       THEN shuttingDown' = FALSE /\ stop' = "idle" /\ UNCHANGED inactivityTimeout
       ELSE IF Busy
            THEN shuttingDown' = FALSE /\ stop' = "idle" /\ inactivityTimeout' = TRUE
            ELSE stop' = "delay" /\ UNCHANGED <<shuttingDown, inactivityTimeout>>
    /\ UNCHANGED <<rateVars, req, jobs, worker, workerInitialized, workers, closer, docker,
                   serverVars>>

\* After the delay the counts are read again: with a job they reset as
\* before, else worker.close() is called.
StopCounts2 ==
    /\ Macro
    /\ stop = "delay"
    /\ IF closer.pc = "done"
       THEN shuttingDown' = FALSE /\ stop' = "idle" /\ UNCHANGED <<inactivityTimeout, workers>>
       ELSE IF Busy
            THEN /\ shuttingDown' = FALSE /\ stop' = "idle" /\ inactivityTimeout' = TRUE
                 /\ UNCHANGED workers
            ELSE /\ stop' = "closing"
                 /\ workers' = [workers EXCEPT !.closing = @ \cup {worker}]
                 /\ UNCHANGED <<shuttingDown, inactivityTimeout>>
    /\ UNCHANGED <<rateVars, req, jobs, worker, workerInitialized, closer, docker, serverVars>>

\* worker.close() has settled (a closing Worker waits for its active jobs) and
\* the connection has quit: worker = null, workerInitialized = false, the
\* timer is cleared and the flag released.
StopClosed ==
    /\ Macro
    /\ stop = "closing"
    /\ ActiveBy(worker) = {}
    /\ workers' = [workers EXCEPT !.live = @ \ {worker}, !.closing = @ \ {worker}]
    /\ worker' = 0
    /\ workerInitialized' = FALSE
    /\ inactivityTimeout' = FALSE
    /\ shuttingDown' = FALSE
    /\ stop' = "idle"
    /\ UNCHANGED <<rateVars, req, jobs, closer, docker, serverVars>>

\* ----------------------------------------------- http.js ExecutionQueue.close
\* close(): the timer is cleared, _shuttingDown set, and worker.close() called
\* when there is a Worker.
CloseStart ==
    /\ Macro
    /\ closer.pc = "idle"
    /\ inactivityTimeout' = FALSE
    /\ shuttingDown' = TRUE
    /\ closer' = [pc |-> IF worker # 0 THEN "worker" ELSE "rest", w |-> worker]
    /\ workers' = IF worker # 0 /\ worker \in workers.live
                  THEN [workers EXCEPT !.closing = @ \cup {worker}] ELSE workers
    /\ UNCHANGED <<rateVars, req, jobs, worker, workerInitialized, stop, docker, serverVars>>

\* worker.close() of close() has settled.
CloseWorker ==
    /\ Macro
    /\ closer.pc = "worker"
    /\ ActiveBy(closer.w) = {}
    /\ workers' = [workers EXCEPT !.live = @ \ {closer.w}, !.closing = @ \ {closer.w}]
    /\ closer' = [closer EXCEPT !.pc = "rest"]
    /\ UNCHANGED <<rateVars, req, jobs, worker, workerInitialized, shuttingDown,
                   inactivityTimeout, stop, docker, serverVars>>

\* The queue and the connections are closed; finally releases the flag.
\* worker and workerInitialized are left as they are.
CloseFinish ==
    /\ Macro
    /\ closer.pc = "rest"
    /\ closer' = [closer EXCEPT !.pc = "done"]
    /\ shuttingDown' = FALSE
    /\ UNCHANGED <<rateVars, req, jobs, worker, workerInitialized, inactivityTimeout, workers,
                   stop, docker, serverVars>>

\* ------------------------------------------- http.js container startup check
\* isDockerAvailable has settled.
DockerCheckEngine ==
    /\ docker.check = "engine"
    /\ docker' = [docker EXCEPT !.dockerAvailable = docker.USE_DOCKER /\ docker.engine,
                                !.check = IF docker.USE_DOCKER /\ docker.engine
                                          THEN "images" ELSE "done"]
    /\ UNCHANGED <<rateVars, req, jobs, workerVars, serverVars>>

\* Both checkDockerImage calls have settled.
DockerCheckImages ==
    /\ docker.check = "images"
    /\ docker' = [docker EXCEPT !.dockerImagesReady = docker.images, !.check = "done"]
    /\ UNCHANGED <<rateVars, req, jobs, workerVars, serverVars>>

\* ------------------------------------------------------------ process restart
\* The server process stops and starts again, with the storage settings r2 in
\* its environment: the cache, the rooms and every running handler are gone;
\* open transactions are rolled back by the database.  The database and the
\* bucket stay.
Restart(r2) ==
    /\ restarts < MaxRestarts
    /\ docState.exists
    /\ restarts' = restarts + 1
    /\ env' = [env EXCEPT !.r2 = r2]
    /\ rowLock' = 0
    /\ cache' = NewCache
    /\ load' = IdleLoad
    /\ microQ' = <<>>
    /\ rooms' = {}
    /\ docs' = [s \in Sockets |-> NoRole]
    /\ inbox' = [s \in Sockets |-> <<>>]
    /\ join' = [s \in Sockets |-> IdleJoin]
    /\ upd' = [u \in UpdIds |-> IF upd[u].pc \in {"idle", "done", "dropped", "failed", "caught", "killed"}
                                THEN upd[u] ELSE [upd[u] EXCEPT !.pc = "killed"]]
    /\ rot' = [r \in RotIds |-> IF rot[r].pc = "update"
                                THEN [IdleRot EXCEPT !.pc = "killed"] ELSE rot[r]]
    /\ hist' = [hist EXCEPT !.loads = 0]
    /\ UNCHANGED <<execVars, authVars, create, user, docState, document_updates, documents, document_members,
                   r2Objects>>

\* ------------------------------------------------------------- specification
\* A state the server reaches by CreateDocument, RotStart/RotUpdate and joins:
\* alice has created the document (with or without initialContent) and rotated
\* the share link once in `mode` (token 1); of the sockets in `room`, s1 (alice)
\* joined as a member and the others (bob's connections) with the token.  Each
\* got a doc-init holding the whole log.
HubServer(room, withInitial, mode) ==
    LET rows == IF withInitial THEN {[seq |-> 1, update |-> InitialUpdate]} ELSE {}
        tail == FetchUpdatesAfter(rows, 0)
        docRow == [exists |-> TRUE, share_status |-> ShareStatusFor(mode),
                   link_share_token_hash |-> Sha256Hex(1)]
        members == [u \in Users |-> IF u = OwnerUser THEN "owner" ELSE NoRole]
        usr == [s \in Sockets |-> IF s = "s1" THEN "alice" ELSE "bob"]
        roleOf == [s \in Sockets |-> IF members[usr[s]] # NoRole THEN members[usr[s]]
                                     ELSE ValidateLinkToken(docRow, 1)]
    IN /\ env \in [prune : BOOLEAN, r2 : {"on", "partial", "off"}]
       /\ docState = [exists |-> TRUE, latest_snapshot_seq |-> 0,
                      latest_snapshot_r2_key |-> NoKey,
                      latest_update_seq |-> IF withInitial THEN 1 ELSE 0]
       /\ document_updates = rows
       /\ rowLock = 0
       /\ documents = docRow
       /\ create = [IdleCreate EXCEPT !.pc = "returned", !.withInitial = withInitial]
       /\ document_members = members
       /\ r2Objects = {}
       /\ cache = NewCache
       /\ load = IdleLoad
       /\ microQ = <<>>
       /\ rooms = room
       /\ docs = [s \in Sockets |-> IF s \in room THEN roleOf[s] ELSE NoRole]
       /\ inbox = [s \in Sockets |-> IF s \in room
                                     THEN <<DocInitMsg(FALSE, {}, 0, tail)>> ELSE <<>>]
       /\ join = [s \in Sockets |->
                    IF s \in room
                    THEN [IdleJoin EXCEPT !.pc = "done"]
                    ELSE IdleJoin]
       /\ upd = [u \in UpdIds |-> IdleUpd]
       /\ rot = [r \in RotIds |-> IF r = 1 THEN [IdleRot EXCEPT !.pc = "done"] ELSE IdleRot]
       /\ restarts = 0
       /\ hist = [committed |-> rows, marked |-> {}, stored |-> {1}, lastStored |-> 1,
                  lastMode |-> mode, joins |-> 0, loads |-> 0, presence |-> 0, relayed |-> {},
                  inits |-> {[before |-> UpdatesOf(rows), got |-> UpdatesOf(rows)]},
                  presented |-> [s \in Sockets |-> IF s \in room /\ s # "s1" THEN {1} ELSE {}]]

HubInit(room, withInitial, mode) ==
    AllConnected /\ HubServer(room, withInitial, mode) /\ FreshExec(ReadyDocker)

UpdNext ==
    \/ \E u \in UpdIds : AppendLock(u)
    \/ \E u \in UpdIds : AppendCommit(u)
    \/ \E u \in UpdIds : AppendRollback(u)
    \/ \E u \in UpdIds : UpdAfterAppend(u)
    \/ \E u \in UpdIds : UpdResume(u)
    \/ LoadState
    \/ LoadTail
    \/ LoadFinish
    \/ LoadFail

SnapNext ==
    \/ \E u \in UpdIds : SnapUpload(u)
    \/ \E u \in UpdIds : SnapFail(u)
    \/ \E u \in UpdIds : MarkSnapshot(u)
    \/ \E u \in UpdIds : SnapDone(u)

\* The update log under concurrent senders. Either all three sockets have joined
\* and may edit, or s1 and s2 have joined, s2 as a viewer, and s3 has not;
\* append, cache load, broadcast and snapshot steps interleave.
InitLog ==
    \E b \in BOOLEAN :
        \/ HubInit(Sockets, b, "edit")
        \/ HubInit({"s1", "s2"}, b, "view")
\* s3 sends only from outside the room: inside it, it is a second connection
\* of bob with the role of s2.
NextLog ==
    \/ \E u \in UpdIds, s \in Sockets : (s # "s3" \/ s \notin rooms) /\ UpdStart(u, s)
    \/ UpdNext
    \/ SnapNext
    \/ Tick
SpecLog == InitLog /\ [][NextLog]_vars

\* The hub with a peer joining while the owner edits: s1 sends updates, storage
\* is configured, s3 joins with or without the share token.
InitHub ==
    /\ \E b \in BOOLEAN : HubInit({"s1", "s2"}, b, "edit")
    /\ IsR2Configured
Next ==
    \/ \E u \in UpdIds : UpdStart(u, "s1")
    \/ UpdNext
    \/ SnapNext
    \/ \E s \in Sockets \ rooms, tok \in {NoToken, 1} : JoinStart(s, tok)
    \/ \E s \in Sockets : JoinShare(s)
    \/ \E s \in Sockets : JoinAuthz(s)
    \/ \E s \in Sockets : JoinState(s)
    \/ \E s \in Sockets : JoinSnap(s)
    \/ \E s \in Sockets : JoinTail(s)
    \/ \E s \in Sockets : JoinInit(s)
    \/ \E s \in Sockets : JoinFail(s)
Spec == InitHub /\ [][Next]_vars

\* The hub across a restart: the owner edits with storage configured and
\* pruning on, the server is restarted with or without its storage settings,
\* and the owner joins again and edits on.
InitReload ==
    /\ HubInit({"s1", "s2"}, TRUE, "edit")
    /\ env = [prune |-> TRUE, r2 |-> "on"]
NextReload ==
    \/ \E u \in UpdIds : UpdStart(u, "s1")
    \/ UpdNext
    \/ LoadSnap
    \/ SnapNext
    \/ \E r2 \in {"on", "off"} : Restart(r2)
    \/ JoinStart("s1", NoToken)
    \/ JoinAuthz("s1")
    \/ JoinState("s1")
    \/ JoinSnap("s1")
    \/ JoinTail("s1")
    \/ JoinInit("s1")
    \/ JoinFail("s1")
SpecReload == InitReload /\ [][NextReload]_vars

\* Presence: s1 and s2 are in the room of the document, s3 is not; sockets send
\* awareness updates and disconnect; s1 and s2 connect again and join again, the
\* owner as a member and s2 with the share token.
InitPresence ==
    /\ HubInit({"s1", "s2"}, TRUE, "edit")
    /\ env = [prune |-> FALSE, r2 |-> "off"]
NextPresence ==
    \/ \E s \in Sockets, d \in DocumentIds : AwarenessUpdate(s, d)
    \/ \E s \in Sockets : Disconnect(s)
    \/ \E s \in {"s1", "s2"} : HandshakeStart(s, IF s = "s1" THEN "jwt-alice" ELSE "jwt-bob")
    \/ \E s \in Sockets : HandshakeVerify(s)
    \/ \E s \in Sockets : HandshakeUpsert(s)
    \/ \E s \in {"s1", "s2"} : JoinStart(s, IF s = "s1" THEN NoToken ELSE 1)
    \/ \E s \in Sockets : JoinShare(s)
    \/ \E s \in Sockets : JoinAuthz(s)
    \/ \E s \in Sockets : JoinState(s)
    \/ \E s \in Sockets : JoinTail(s)
    \/ \E s \in Sockets : JoinInit(s)
SpecPresence == InitPresence /\ [][NextPresence]_vars

\* Revocation: s2 has joined with the share token and may edit; the owner
\* rotates the share link while s1 and s2 send updates.
InitRevoke ==
    /\ \E b \in BOOLEAN : HubInit({"s1", "s2"}, b, "edit")
    /\ env = [prune |-> FALSE, r2 |-> "off"]
NextRevoke ==
    \/ \E r \in RotIds, mode \in {"view", "edit"} : RotStart(r, OwnerUser, mode)
    \/ \E r \in RotIds : RotUpdate(r)
    \/ \E u \in UpdIds, s \in {"s1", "s2"} : UpdStart(u, s)
    \/ UpdNext
SpecRevoke == InitRevoke /\ [][NextRevoke]_vars

\* Leaving: s1 and s2 are in the room and may edit; s2 leaves the document,
\* goes on sending updates and presence, and may join again.
InitLeave ==
    /\ HubInit({"s1", "s2"}, TRUE, "edit")
    /\ env = [prune |-> FALSE, r2 |-> "off"]
NextLeave ==
    \/ LeaveDocument("s2")
    \/ AwarenessUpdate("s2", TheDocument)
    \/ \E u \in UpdIds : UpdStart(u, "s2")
    \/ \E u \in UpdIds : AppendLock(u)
    \/ \E u \in UpdIds : AppendCommit(u)
    \/ \E u \in UpdIds : UpdAfterAppend(u)
    \/ \E u \in UpdIds : UpdResume(u)
    \/ LoadState
    \/ LoadTail
    \/ LoadFinish
    \/ JoinStart("s2", 1)
    \/ JoinShare("s2")
    \/ JoinAuthz("s2")
    \/ JoinState("s2")
    \/ JoinTail("s2")
    \/ JoinInit("s2")
SpecLeave == InitLeave /\ [][NextLeave]_vars

\* Relays: s1 and s2 are in the room, s3 is connected and has not joined; the
\* sockets send relay events and presence for the document, and s3 may join.
InitRelay ==
    /\ HubInit({"s1", "s2"}, TRUE, "edit")
    /\ env = [prune |-> FALSE, r2 |-> "off"]
NextRelay ==
    \/ \E s \in Sockets, ev \in RelayEvents : RelayMessage(s, ev)
    \/ \E s \in Sockets : AwarenessUpdate(s, TheDocument)
    \/ \E tok \in {NoToken, 1} : JoinStart("s3", tok)
    \/ JoinShare("s3")
    \/ JoinAuthz("s3")
    \/ JoinState("s3")
    \/ JoinTail("s3")
    \/ JoinInit("s3")
SpecRelay == InitRelay /\ [][NextRelay]_vars

\* Sharing: document creation, share-link rotation, and joins by the member
\* (s1) and by a token holder (s2), on a freshly started server with the
\* default configuration.
InitShare == Init /\ env = [prune |-> FALSE, r2 |-> "off"]
NextShare ==
    \/ \E b \in BOOLEAN : CreateDocument(b)
    \/ \E b \in BOOLEAN, k \in 1..6 : CreateDocumentFail(b, k)
    \/ \E r \in RotIds, usr \in Users, mode \in {"view", "edit"} : RotStart(r, usr, mode)
    \/ \E r \in RotIds : RotUpdate(r)
    \/ \E s \in {"s1", "s2"}, tok \in Tokens \cup {NoToken} : JoinStart(s, tok)
    \/ \E s \in Sockets : JoinShare(s)
    \/ \E s \in Sockets : JoinAuthz(s)
    \/ \E s \in Sockets : JoinState(s)
    \/ \E s \in Sockets : JoinTail(s)
    \/ \E s \in Sockets : JoinInit(s)
    \/ \E s \in Sockets : JoinFail(s)
SpecShare == InitShare /\ [][NextShare]_vars

\* The handshake: a document exists (alice owns it, link sharing in edit mode),
\* nobody is connected yet.
InitAuth ==
    /\ user = [s \in Sockets |-> NoUser]
    /\ hs = [s \in Sockets |-> IdleHs]
    /\ usersTable = {}
    /\ HubServer({}, TRUE, "edit")
    /\ env = [prune |-> FALSE, r2 |-> "off"]
    /\ FreshExec(ReadyDocker)

NextAuth ==
    \/ \E s \in Sockets, token \in Jwts \cup {ForgedJwt, NoJwt} : HandshakeStart(s, token)
    \/ \E s \in Sockets : HandshakeVerify(s)
    \/ \E s \in Sockets : HandshakeUpsert(s)
    \/ \E s \in Sockets : HandshakeFail(s)
    \/ \E s \in Sockets, tok \in {NoToken, 1} : JoinStart(s, tok)
    \/ \E s \in Sockets : JoinShare(s)
    \/ \E s \in Sockets : JoinAuthz(s)
    \/ \E s \in Sockets : JoinState(s)
    \/ \E s \in Sockets : JoinTail(s)
    \/ \E s \in Sockets : JoinInit(s)
    \/ \E s \in Sockets : JoinFail(s)

SpecAuth == InitAuth /\ [][NextAuth]_vars

\* The rate limiter: requests of alice, a datastore that may fail or lose its
\* script cache, and time passing; no job is taken from the queue.
InitExec == AllConnected /\ HubServer({}, TRUE, "edit") /\ env = [prune |-> FALSE, r2 |-> "off"]

InitRate == InitExec /\ FreshExec(ReadyDocker)

NextRate ==
    \/ \E c \in ReqIds : EnqStart(c, "alice")
    \/ \E c \in ReqIds : RedisLoad(c)
    \/ \E c \in ReqIds : RedisEval(c)
    \/ \E c \in ReqIds : RedisFail(c)
    \/ \E c \in ReqIds : QueueAdd(c)
    \/ ScriptFlush
    \/ ClockTick

SpecRate == InitRate /\ [][NextRate]_vars

\* Requests that the limiter lets through: Limit of alice and one of bob.
JobIds == 1..(Limit + 1)

EnqNext(ids) ==
    \/ \E c \in ids : EnqStart(c, IF c <= Limit THEN "alice" ELSE "bob")
    \/ \E c \in ids : RedisLoad(c)
    \/ \E c \in ids : RedisEval(c)
    \/ \E c \in ids : QueueAdd(c)

JobNext(ids) ==
    \/ \E j \in ids : WorkerPick(j)
    \/ \E j \in ids : JobComplete(j)
    \/ \E j \in ids : JobFail(j)
    \/ \E c \in ids : Poll(c)
    \/ \E c \in ids : PollFetch(c)
    \/ \E c \in ids : PollTimeout(c)

StopNext == TimerFire \/ StopCounts1 \/ StopCounts2 \/ StopClosed

\* The queue and its Worker: requests of alice, the jobs, the inactivity
\* timer and the idle stop.
InitQueue == InitExec /\ FreshExec(ReadyDocker)

NextQueue == EnqNext(1..Limit) \/ JobNext(1..Limit) \/ StopNext

SpecQueue == InitQueue /\ [][NextQueue]_vars

\* Worker instances: requests of alice and bob, jobs that complete, the idle
\* stop, and close() called at any moment, once.
CloseNext == CloseStart \/ CloseWorker \/ CloseFinish

NextWorker ==
    \/ EnqNext(JobIds)
    \/ \E c \in JobIds : EnsureResume(c)
    \/ \E c \in JobIds : RedisFail(c)
    \/ \E j \in JobIds : WorkerPick(j)
    \/ \E j \in JobIds : JobComplete(j)
    \/ StopNext
    \/ CloseNext

SpecWorker == InitQueue /\ [][NextWorker]_vars

\* The container flags: any engine and image state, the startup check not yet
\* run, two requests.
InitSandbox ==
    /\ InitExec
    /\ \E dk \in [USE_DOCKER : BOOLEAN, dockerAvailable : {FALSE}, dockerImagesReady : {FALSE},
                    engine : BOOLEAN, images : BOOLEAN, check : {"engine"}] : FreshExec(dk)

NextSandbox ==
    \/ DockerCheckEngine
    \/ DockerCheckImages
    \/ EnqNext(1..2)
    \/ JobNext(1..2)

SpecSandbox == InitSandbox /\ [][NextSandbox]_vars

\* The run of jobs: requests of alice, with containers enabled or disabled by
\* USE_DOCKER, each job's process exiting or running into the timeout.
InitRun ==
    /\ InitExec
    /\ \E use \in BOOLEAN : FreshExec([ReadyDocker EXCEPT !.USE_DOCKER = use])

NextRun ==
    \/ EnqNext(1..Limit)
    \/ \E j \in 1..Limit : WorkerPick(j)
    \/ \E j \in 1..Limit, lang \in Languages : ExecutorSpawn(j, lang)
    \/ \E j \in 1..Limit, code \in ExitCodes : ProcessClose(j, code)
    \/ \E j \in 1..Limit : ProcessTimeout(j)
    \/ \E c \in 1..Limit : Poll(c)
    \/ \E c \in 1..Limit : PollFetch(c)
    \/ \E c \in 1..Limit : PollTimeout(c)

SpecRun == InitRun /\ [][NextRun]_vars

\* ------------------------------------------------------------------- claims
\* The handler's appendUpdate call has returned a sequence number.
AppendReturned(u) ==
    upd[u].pc \in {"appended", "awaitLoad", "upload", "mark", "marked", "done", "caught"}

RowsWithSeq(rows, q) == {r \in rows : r.seq = q}

\* C1: concurrent appendUpdate calls on the document never return the same
\* sequence number, and every returned sequence is the key of exactly one
\* committed row of the update log, the row holding that call's update.
C1_UniqueSequence ==
    /\ \A u, v \in UpdIds :
          AppendReturned(u) /\ AppendReturned(v) /\ u # v => upd[u].seq # upd[v].seq
    /\ \A u \in UpdIds :
          AppendReturned(u) =>
             /\ RowsWithSeq(hist.committed, upd[u].seq) = {[seq |-> upd[u].seq, update |-> u]}
             /\ Cardinality(RowsWithSeq(document_updates, upd[u].seq)) <= 1

\* Two calls of different connections have returned; the second waited for the
\* first one's row lock and got the next sequence.
C1_Witness ==
    \E u, v \in UpdIds :
        /\ AppendReturned(u) /\ AppendReturned(v)
        /\ upd[u].sender # upd[v].sender
        /\ upd[v].seq = upd[u].seq + 1

\* C2: the sequences assigned to the document are contiguous from 1 to
\* latest_update_seq, every log row carries one of them, and a sequence may be
\* absent from the log only when pruning is on and a snapshot has been recorded
\* at some S at or above it.
C2_ContiguousLog ==
    LET latest == docState.latest_update_seq
    IN /\ SeqsOf(hist.committed) = 1..latest
       /\ Cardinality(hist.committed) = latest
       /\ document_updates \subseteq hist.committed
       /\ \A q \in 1..latest :
             q \notin SeqsOf(document_updates) =>
                env.prune /\ \E S \in hist.marked : q <= S

\* A snapshot was recorded with pruning on: its entries are gone from the log,
\* a later entry is still there.
C2_Witness ==
    /\ env.prune
    /\ \E S \in hist.marked :
          /\ S \notin SeqsOf(document_updates)
          /\ S + 1 \in SeqsOf(document_updates)

\* The updates a reader gets from document_state and the log: the snapshot
\* object the pointer names, and the log rows after the pointer.
SnapshotPlusTail ==
    (IF docState.latest_snapshot_r2_key # NoKey
     THEN ObjectBytes(r2Objects, docState.latest_snapshot_r2_key)
     ELSE {})
    \cup UpdatesOf({r \in document_updates : r.seq > docState.latest_snapshot_seq})

\* C3: the snapshot object at the snapshot pointer together with the log
\* entries after the pointer holds every update ever appended to the document,
\* whatever the interleaving of the yjs-update handlers.
C3_SnapshotPlusTailComplete ==
    SnapshotPlusTail = UpdatesOf(hist.committed)

\* Position of the yjs-update broadcasts in a socket's deliveries.
Broadcasts(s) == {i \in 1..Len(inbox[s]) : inbox[s][i].type = "yjs-update"}

\* C6: the yjs-update broadcasts delivered to a peer carry strictly increasing
\* sequence numbers, whatever the interleaving of the handlers of different
\* senders.
C6_BroadcastsIncreasing ==
    \A s \in Sockets : \A i, j \in Broadcasts(s) :
        i < j => inbox[s][i].seq < inbox[s][j].seq

\* Handler u has applied its update to the cache and broadcast it.
Applied(u) == upd[u].pc \in {"upload", "mark", "marked", "done"}

Delivered(u) ==
    \E s \in Sockets : \E i \in Broadcasts(s) : inbox[s][i].update = u

\* C7: a broadcast with sequence q is delivered only when its update is
\* committed under q; a handler whose appendUpdate failed has no row in the
\* log, broadcast nothing, and left latest_update_seq, the cached document and
\* pendingUpdates as they were.
C7_BroadcastAfterCommit ==
    /\ \A s \in Sockets : \A i \in Broadcasts(s) :
          /\ [seq |-> inbox[s][i].seq, update |-> inbox[s][i].update] \in hist.committed
          /\ inbox[s][i].seq <= docState.latest_update_seq
    /\ \A u \in UpdIds :
          upd[u].pc = "failed" =>
             /\ u \notin UpdatesOf(hist.committed) \cup UpdatesOf(document_updates)
             /\ ~Delivered(u)
             /\ u \notin cache.doc
    /\ docState.latest_update_seq = Cardinality(hist.committed)
    /\ cache.pendingUpdates <= Cardinality({u \in UpdIds : Applied(u)})

\* One append was rolled back while another sender's update was committed and
\* broadcast.
C7_Witness ==
    \E u, v \in UpdIds :
        /\ upd[u].pc = "failed"
        /\ upd[v].sender # upd[u].sender
        /\ Delivered(v)
        /\ cache.pendingUpdates = 1

\* C9: an update is appended, applied or broadcast only when its sender's
\* recorded role for the document is owner or editor; the update of a viewer,
\* or of a socket with no recorded role, is dropped and changes nothing.
C9_EditorsOnly ==
    \A u \in UpdIds :
        /\ (\/ u \in UpdatesOf(hist.committed) \cup UpdatesOf(document_updates)
            \/ u \in cache.doc
            \/ Delivered(u)
            \/ upd[u].pc \notin {"idle", "dropped"})
           => upd[u].role \in {"owner", "editor"}
        /\ (upd[u].pc # "idle" /\ upd[u].role \notin {"owner", "editor"})
           => /\ upd[u].pc = "dropped"
              /\ u \notin UpdatesOf(hist.committed) \cup UpdatesOf(document_updates)
              /\ u \notin cache.doc
              /\ ~Delivered(u)

\* A viewer's update and the update of a socket outside the room were dropped.
C9_Witness ==
    \E u, v \in UpdIds :
        /\ upd[u].pc = "dropped" /\ upd[u].role = "viewer"
        /\ upd[v].pc = "dropped" /\ upd[v].role = NoRole
        /\ docState.latest_update_seq = Cardinality(hist.committed)
        /\ ~Delivered(u) /\ ~Delivered(v)

\* The doc-init messages delivered to a socket.
DocInits(s) == {i \in 1..Len(inbox[s]) : inbox[s][i].type = "doc-init"}

\* The sequence a doc-init is complete up to: its last tail update, or its
\* snapshot when the tail is empty.
InitSeq(m) ==
    IF m.updates # <<>> THEN m.updates[Len(m.updates)].seq ELSE m.seq

\* C4: with pruning on, the doc-init a joiner receives holds, in its snapshot
\* and tail together, every update appended before the join started, also when
\* the join interleaves with a snapshot upload, mark and prune.
C4_JoinComplete ==
    env.prune => \A i \in hist.inits : i.before \subseteq i.got

\* C5: a joiner's doc-init, complete up to S0, is emitted before any
\* yjs-update broadcast with a sequence above S0 is delivered to that socket.
C5_InitBeforeBroadcast ==
    \A s \in Sockets : \A j \in DocInits(s) : \A i \in Broadcasts(s) :
        i < j => inbox[s][i].seq <= InitSeq(inbox[s][j])

Errors(s, m) == {i \in 1..Len(inbox[s]) : inbox[s][i] = ErrorMsg(m)}

\* The socket's user is no member and the socket never presented a token that
\* rotateShareLink has stored.
Stranger(s) ==
    /\ document_members[user[s]] = NoRole
    /\ hist.presented[s] \cap hist.stored = {}

RoleForMode(mode) == IF mode = "edit" THEN "editor" ELSE "viewer"

\* The tokens validateLinkToken accepts against the documents row.
Accepted == {t \in Tokens : ValidateLinkToken(documents, t) # NoRole}

\* A join's validateLinkToken returns a role only for the token stored last,
\* and the role of the share status stored with it.
C10_JoinStep ==
    \A s \in Sockets :
        (join[s].pc = "share" /\ join'[s].pc = "authz" /\ join'[s].role # NoRole)
        => /\ hist.stored # {}
           /\ join[s].token = hist.lastStored
           /\ join'[s].role = RoleForMode(hist.lastMode)

\* C10: after any sequence or interleaving of rotateShareLink calls by the
\* owner, validateLinkToken accepts exactly one token, the one stored last,
\* with the role of the share status stored by the same call; the tokens of
\* earlier or losing rotations are refused at join.
C10_OneTokenValid ==
    /\ [](hist.stored # {} =>
             /\ Accepted = {hist.lastStored}
             /\ ValidateLinkToken(documents, hist.lastStored) = RoleForMode(hist.lastMode))
    /\ [][C10_JoinStep]_vars

\* Two rotations have stored their tokens, and a socket that presented the
\* losing one was refused.
C10_Witness ==
    /\ hist.stored = RotIds
    /\ Accepted = {hist.lastStored}
    /\ \E s \in Sockets :
          /\ hist.presented[s] # {}
          /\ hist.presented[s] \subseteq hist.stored \ {hist.lastStored}
          /\ Errors(s, "forbidden") # {}

\* The highest sequence among rows, 0 when there is none.
MaxSeq(rows) == IF rows = {} THEN 0 ELSE CHOOSE q \in SeqsOf(rows) : \A p \in SeqsOf(rows) : p <= q

\* C20 as stated: document_state.latest_update_seq equals the highest seq
\* stored in the update log, or 0 if the log holds no entry, with or without
\* pruning.
C20_LatestIsMaxOfLog ==
    docState.latest_update_seq = MaxSeq(document_updates)

\* C20 amended: latest_update_seq equals the highest seq ever appended (0 if
\* none) and no stored row lies above it; it is the highest seq stored in the
\* log unless pruning is on and a snapshot was recorded at or above it, and
\* without pruning it always is.
C20_LatestIsMaxAppended ==
    LET latest == docState.latest_update_seq
    IN /\ latest = MaxSeq(hist.committed)
       /\ \A r \in document_updates : r.seq <= latest
       /\ \/ latest = MaxSeq(document_updates)
          \/ env.prune /\ \E S \in hist.marked : latest <= S
       /\ ~env.prune => latest = MaxSeq(document_updates)

\* A snapshot at the latest sequence was marked with pruning on: the log is
\* empty and latest_update_seq is not 0.
C20_Witness ==
    /\ env.prune
    /\ document_updates = {}
    /\ docState.latest_update_seq > 0
    /\ docState.latest_update_seq \in hist.marked

\* C11: a socket is connected only after its session token verified and its
\* user row was upserted, and socket.data.user is then that user; a handshake
\* with a missing or invalid token is refused and none of its handlers ever runs.
C11_Handled(s) == join[s].pc # "idle" \/ s \in rooms \/ inbox[s] # <<>> \/ docs[s] # NoRole

Min(a, b) == IF a <= b THEN a ELSE b

\* checkLimit calls made, calls that have returned, and calls that returned
\* allowed = true.
Called == {c \in ReqIds : req[c].pc \notin {"idle", "ensureWait"}}
Returned == {c \in Called : req[c].pc \notin {"load", "eval"}}
AllowedCalls == {c \in Returned : req[c].pc # "limited"}
DeniedCalls == {c \in Returned : req[c].pc = "limited" /\ req[c].reason = "exceeded"}
Unavailable == {c \in Returned : req[c].reason = "unavailable"}

\* All calls made so far carry timestamps less than one window apart.
OneWindow == \A c, d \in Called : req[c].now - req[d].now < Window

\* C12: when N calls for one user run against an empty bucket inside one
\* window and the datastore answers them all, exactly min(N, L) of them return
\* allowed = true, whatever the order in which the datastore runs them; before
\* all have returned, never more than L.
C12_AtomicCheckAndInsert ==
    (OneWindow /\ Unavailable = {}) =>
        /\ Cardinality(AllowedCalls) <= Limit
        /\ Returned = Called =>
              Cardinality(AllowedCalls) = Min(Cardinality(Called), Limit)

C12_Witness ==
    /\ Cardinality(Called) > Limit
    /\ Returned = Called /\ Unavailable = {}
    /\ \A c, d \in Called : req[c].now = req[d].now
    /\ Cardinality(AllowedCalls) = Limit
    /\ DeniedCalls # {}

\* C13: the allowed calls whose timestamps lie in the window ending at an
\* allowed call's timestamp never number more than the limit; a call is denied
\* only when the limit is reached in its window; a denied call adds no entry.
C13_SlidingWindow ==
    /\ \A c \in AllowedCalls :
          Cardinality({d \in AllowedCalls :
                          req[c].now - Window < req[d].now /\ req[d].now <= req[c].now}) <= Limit
    /\ \A c \in DeniedCalls :
          Cardinality({d \in AllowedCalls : req[c].now - Window < req[d].now}) >= Limit
    /\ \A c \in DeniedCalls : \A e \in bucket[req[c].user] : e.id # c

\* C14: a call whose datastore command failed returned allowed = false with
\* the error reason; its request was answered 429, left no entry in the bucket
\* and no job in the queue.
C14_FailClosed ==
    \A c \in ReqIds :
        req[c].reason = "unavailable" =>
            /\ req[c].pc = "limited"
            /\ jobs[c] = NoJob
            /\ \A e \in bucket[req[c].user] : e.id # c

C14_Witness ==
    /\ \E c \in ReqIds : req[c].reason = "unavailable" /\ req[c].pc = "limited"
    /\ \E c \in ReqIds : jobs[c].state = "waiting"

\* C15: when one user has made MaxCalls requests inside one window, more than
\* the limit, and all are answered, exactly Limit of them were added to the
\* queue as jobs; each of the others was answered 429 and has no job.
C15_OverLimitRejected ==
    (/\ \A c \in ReqIds : req[c].pc \in {"polling", "limited"}
     /\ \A c, d \in ReqIds : req[c].user = req[d].user
     /\ OneWindow /\ Unavailable = {}) =>
        /\ Cardinality({c \in ReqIds : jobs[c].state # "none"}) = Min(MaxCalls, Limit)
        /\ Cardinality({c \in ReqIds : HttpStatus(req[c]) = 429}) = MaxCalls - Min(MaxCalls, Limit)
        /\ \A c \in ReqIds : HttpStatus(req[c]) = 429 <=> jobs[c] = NoJob

C15_Witness ==
    /\ MaxCalls > Limit
    /\ \A c \in ReqIds : req[c].pc \in {"polling", "limited"}
    /\ OneWindow /\ Unavailable = {}
    /\ \E c \in ReqIds : HttpStatus(req[c]) = 429 /\ jobs[c] = NoJob
    /\ \E c \in ReqIds : jobs[c].state = "waiting"

\* ------------------------------------------------- execution queue claims
\* C16: a job waits in the queue only while a Worker is alive: the idle stop
\* never ends with the Worker closed and a job waiting.
C16_NoJobLeftWaiting ==
    \A j \in ReqIds : jobs[j].state = "waiting" => workers.live # {}

\* C17: the request polling for a job always finds the job: a job that has
\* completed or failed is not removed before its request has read the outcome.
C17_ResultRetrievable ==
    \A c \in ReqIds : req[c].pc \in {"polling", "fetch"} => jobs[c].state # "removed"

\* C18: with containers enabled and the container engine unreachable or an
\* image absent, no job's code has run in a child process of the server.
C18_NeverOutsideContainer ==
    (docker.USE_DOCKER /\ (~docker.engine \/ ~docker.images)) =>
        \A j \in ReqIds : jobs[j].ran # "child_process"

\* C19: at most one Worker instance is alive and at most MAX_CONCURRENT_JOBS
\* jobs are active, and every active job is run by the live Worker.
C19_BoundedConcurrency ==
    /\ Cardinality(workers.live) <= 1
    /\ Cardinality({j \in ReqIds : jobs[j].state = "active"}) <= MAX_CONCURRENT_JOBS
    /\ \A j \in ReqIds : jobs[j].state = "active" => jobs[j].by \in workers.live

C19_Witness ==
    /\ workers.made = 2 /\ workers.live = {2}
    /\ Cardinality({j \in ReqIds : jobs[j].state = "active"}) = MAX_CONCURRENT_JOBS
    /\ \E j \in ReqIds : jobs[j].state = "waiting"

\* ------------------------------------------- snapshot pointer and cache claims
\* C21: in every reachable state the snapshot pointer of the document is at
\* most its latest update sequence, whatever the interleaving of the handlers
\* that append updates and mark snapshots.
C21_PointerAtMostLatest ==
    docState.latest_snapshot_seq <= docState.latest_update_seq

\* The boundary case: a snapshot was marked at the latest sequence, after
\* more than one append.
C21_Witness ==
    /\ docState.latest_update_seq >= 2
    /\ docState.latest_snapshot_seq = docState.latest_update_seq
    /\ docState.latest_snapshot_seq \in hist.marked

\* C30: the snapshot pointer of the document never decreases: every
\* markSnapshot that commits sets a pointer at or above the previous one,
\* whatever the interleaving of the snapshot tasks.
C30_PointerNeverDecreases ==
    [][docState'.latest_snapshot_seq >= docState.latest_snapshot_seq]_vars

\* Handler u is between the start of its append (it holds the row lock of the
\* append transaction) and the end of its snapshot step.
InCriticalSteps(u) ==
    upd[u].pc \in {"tx", "appended", "awaitLoad", "upload", "mark", "marked"}

\* C26: load, append + broadcast and snapshot upload + markSnapshot of one
\* document are strictly serialized: no two yjs-update handlers are between
\* the start of their append and the end of their snapshot step at once.
C26_HandlersSerialized ==
    \A u, v \in UpdIds : InCriticalSteps(u) /\ InCriticalSteps(v) => u = v

\* The handler of update u has run to its end after its append returned.
Finished(u) == upd[u].pc \in {"done", "caught"}

\* Socket s was sent the yjs-update broadcast of u with the sequence q.
BroadcastTo(s, u, q) ==
    \E i \in Broadcasts(s) : inbox[s][i].update = u /\ inbox[s][i].seq = q

\* C27: every update a yjs-update handler has appended to the log is broadcast
\* with its seq to all other sockets of the document room, also when the
\* cache load or the cache apply fails: a handler that has run to its end
\* after its append has sent the broadcast.
C27_AppendedIsBroadcast ==
    \A u \in UpdIds :
        Finished(u) =>
            \A s \in rooms \ {upd[u].sender} : BroadcastTo(s, u, upd[u].seq)

CommittedUpTo(q) == UpdatesOf({r \in hist.committed : r.seq <= q})

\* C29: a document cache that is marked loaded contains every update of the
\* log with seq <= its lastSeqApplied, and a snapshot a handler has encoded
\* from the cache for its seq contains every update up to that seq.
C29_LoadedCacheComplete ==
    /\ cache.loaded => CommittedUpTo(cache.lastSeqApplied) \subseteq cache.doc
    /\ \A u \in UpdIds :
          upd[u].pc \in {"upload", "mark"} => CommittedUpTo(upd[u].seq) \subseteq upd[u].snap

\* Some log entry with a sequence up to q is gone from the log.
PrunedUpTo(q) == \E k \in 1..q : k \notin SeqsOf(document_updates)

\* The load or join record r read a snapshot pointer and got no bytes for it.
PointerWithoutBytes(r) == r.snapshotSeq > 0 /\ ~r.hasSnap

\* Socket s is sent a doc-init in this step.
DocInitSent(s) ==
    /\ Len(inbox'[s]) = Len(inbox[s]) + 1
    /\ inbox'[s][Len(inbox'[s])].type = "doc-init"

\* C23: when the snapshot pointer is set, its bytes could not be fetched and
\* log entries up to the pointer have been pruned, ensureCacheLoaded does not
\* mark the cache loaded and join-document does not send a doc-init built from
\* the remaining entries; when the log has not been pruned they replay the
\* whole log from sequence 0.
C23_InconsistentStateSurfaced ==
    [][/\ load.pc = "finish" /\ PointerWithoutBytes(load) =>
            IF PrunedUpTo(load.snapshotSeq)
            THEN ~cache'.loaded
            ELSE 1..load.snapshotSeq \subseteq SeqsOf(Range(load.updates))
       /\ \A s \in Sockets :
            join[s].pc = "init" /\ PointerWithoutBytes(join[s]) =>
               IF PrunedUpTo(join[s].snapshotSeq)
               THEN ~DocInitSent(s)
               ELSE 1..join[s].snapshotSeq \subseteq SeqsOf(Range(join[s].updates))]_vars

\* C24: when the snapshot bytes cannot be obtained at join (storage not
\* configured, object missing, or the storage request fails), join-document
\* still emits doc-init, with no snapshot, snapshotSeq 0 and all log entries
\* in ascending order: a join that has reached the download of the snapshot
\* bytes ends with a doc-init, and a doc-init without snapshot carries
\* snapshotSeq 0 and the whole log.
C24_DocInitWithoutSnapshot ==
    [][\A s \in Sockets :
          /\ join[s].pc = "snap" /\ join'[s].pc = "done" => DocInitSent(s)
          /\ join[s].pc = "init" /\ ~join[s].hasSnap /\ join'[s].pc = "done" =>
                /\ DocInitSent(s)
                /\ inbox'[s][Len(inbox'[s])].seq = 0
                /\ inbox'[s][Len(inbox'[s])].updates = FetchUpdatesAfter(Range(join[s].updates), 0)
                /\ SeqsOf(Range(join[s].updates)) \subseteq SeqsOf(hist.committed)]_vars

\* The rows of the document that exist: its documents row, its document_state
\* row and the owner membership.
DocumentRows ==
    (IF documents.exists THEN {"documents"} ELSE {})
    \cup (IF docState.exists THEN {"document_state"} ELSE {})
    \cup (IF document_members[OwnerUser] = "owner" THEN {"document_members"} ELSE {})

\* C22: createDocumentForUser is all-or-nothing: when it has returned, the
\* documents row, the document_state row and the owner membership all exist,
\* and with initial bytes the log holds exactly one entry, seq 1, and
\* latest_update_seq = 1 (without: the log is empty and latest_update_seq = 0);
\* when a step has failed, none of these rows exist.
C22_CreateAllOrNothing ==
    /\ create.pc = "returned" =>
          /\ DocumentRows = {"documents", "document_state", "document_members"}
          /\ IF create.withInitial
             THEN /\ document_updates = {[seq |-> 1, update |-> InitialUpdate]}
                  /\ docState.latest_update_seq = 1
             ELSE /\ document_updates = {}
                  /\ docState.latest_update_seq = 0
    /\ create.pc \in {"idle", "failed"} =>
          /\ DocumentRows = {}
          /\ document_updates = {}
          /\ docState.latest_update_seq = 0

\* A creation with initial bytes failed at the statement that sets
\* latest_update_seq, after every insert had run.
C22_Witness ==
    /\ create.pc = "failed"
    /\ create.withInitial
    /\ create.failedAt = 5

\* ----------------------------------------------------------- presence claims
\* The positions of the messages a step adds to the inbox of s.
Added(s) == (Len(inbox[s]) + 1)..Len(inbox'[s])

Presence(s) == {i \in 1..Len(inbox[s]) : inbox[s][i].type = "awareness-update"}

\* C25: an awareness-update is relayed only to the other sockets of the room
\* of its document, never back to its sender and never to the room of another
\* document, only when the sender has a role recorded for that document, and
\* the step changes no durable state (log, document state, bucket); presence
\* reaches a socket in no other way, so a peer that rejoins after all peers
\* have disconnected receives no presence records.
C25_PresenceRelayedNotStored ==
    [][\A s \in Sockets : \A i \in Added(s) :
          inbox'[s][i].type = "awareness-update" =>
             LET m == inbox'[s][i]
             IN /\ m.from # s
                /\ s \in RoomOf(m.documentId)
                /\ hs[m.from].pc = "connected"
                /\ IF m.documentId = TheDocument
                   THEN docs[m.from] # NoRole
                   ELSE m.from = "s3"
                /\ UNCHANGED <<dbVars, r2Objects, cacheVars>>]_vars

\* s2 sent its presence to s1; both disconnected; s1 has connected and joined
\* again, got its doc-init and holds no presence record.
C25_Witness ==
    /\ <<"s2", "s1">> \in hist.relayed
    /\ rooms = {"s1"}
    /\ hs["s2"].pc = "idle"
    /\ \E i \in 1..Len(inbox["s1"]) : inbox["s1"][i].type = "doc-init"
    /\ Presence("s1") = {}

\* ------------------------------------------------ error handling claims
\* The error events socket s was sent.
ErrorEvents(s) == {i \in 1..Len(inbox[s]) : inbox[s][i].type = "error"}

\* C31: when appendUpdate fails inside the yjs-update handler, the sending
\* peer receives an error event, and no other peer receives a message because
\* of the failed update.
C31_AppendFailureSurfaced ==
    \A u \in UpdIds :
        upd[u].pc = "failed" =>
            /\ ErrorEvents(upd[u].sender) # {}
            /\ ~Delivered(u)

\* The snapshot task of handler u ended without a snapshot being marked.
SnapshotGivenUp(u) ==
    upd[u].pc = "done" /\ upd[u].snap # {} /\ upd[u].seq \notin hist.marked

\* C32: when the snapshot upload or markSnapshot fails, or the upload returns
\* no key, the cache counters and the snapshot pointer are left unchanged, so
\* the next handler that meets the trigger condition attempts a snapshot
\* again; only a snapshot that was uploaded and marked resets pendingUpdates.
C32_FailedSnapshotLeavesCounters ==
    [][/\ \A u \in UpdIds :
            upd[u].pc \in {"upload", "mark"} /\ upd'[u].pc = "done" =>
                /\ cache' = cache
                /\ docState' = docState
       /\ \A u \in UpdIds :
            /\ upd[u].pc \in {"appended", "awaitLoad"}
            /\ upd'[u].pc \in {"upload", "done"}
            /\ R2Env
            /\ cache'.pendingUpdates >= EveryN \/ cache'.elapsed
            => upd'[u].pc = "upload"
       /\ cache.pendingUpdates > 0 /\ cache'.pendingUpdates = 0 =>
            \E u \in UpdIds : upd[u].pc = "marked" /\ upd'[u].pc = "done"]_vars

\* A snapshot task ended without a mark, the counters kept its update, and
\* the next handler is attempting a snapshot.
C32_Witness ==
    \E u, v \in UpdIds :
        /\ SnapshotGivenUp(u)
        /\ upd[v].pc = "upload"
        /\ upd[v].seq > upd[u].seq
        /\ cache.pendingUpdates >= 2
        /\ docState.latest_snapshot_seq = 0

\* C39: a failed cache load does not leave the document unloadable: a later
\* ensureCacheLoaded call starts a new load instead of returning the failed
\* one, so a later yjs-update handler is not sent to its catch block by a load
\* that failed before it called.
C39_FailedLoadRetried ==
    [][\A u \in UpdIds :
          upd[u].pc = "appended" /\ cache.loadPromise = "rejected" =>
              upd'[u].pc # "caught"]_vars

\* The updates socket s got in its doc-inits, as snapshot or as tail.
GotInit(s) ==
    UNION {(IF inbox[s][i].hasSnapshot THEN inbox[s][i].snapshot ELSE {})
           \cup UpdatesOf(Range(inbox[s][i].updates)) : i \in DocInits(s)}

\* The handler that committed update u has not reached its broadcast yet.
BroadcastPending(u) == u \in UpdIds /\ upd[u].pc \in {"appended", "awaitLoad"}

\* C40: with pruning disabled no update is missed by a joiner: every update
\* committed to the log is in the doc-init the joiner was sent or was
\* delivered to it as a yjs-update broadcast (or is its own, or its handler
\* has not reached the broadcast yet), whatever the interleaving of the join
\* with the yjs-update handlers.
C40_NoUpdateMissed ==
    ~env.prune =>
        \A s \in Sockets :
            DocInits(s) # {} =>
                \A r \in hist.committed :
                    \/ r.update \in GotInit(s)
                    \/ BroadcastTo(s, r.update, r.seq)
                    \/ BroadcastPending(r.update)
                    \/ r.update \in UpdIds /\ upd[r.update].sender = s

\* ------------------------------------------------------ authorization claims
\* Socket s is authorized to edit now: its user is a member who may edit, or
\* it has presented a share token that the documents row accepts for editing.
MayEditNow(s) ==
    \/ CanEdit(document_members[user[s]])
    \/ \E t \in hist.presented[s] : CanEdit(ValidateLinkToken(documents, t))

\* C34: once the owner has rotated the share link, a peer that joined with the
\* previous token has no edit access: a yjs-update of a socket is taken for
\* append (and then broadcast) only while its authorization is still valid.
C34_RotationRevokesAccess ==
    [][\A u \in UpdIds :
          upd[u].pc = "idle" /\ upd'[u].pc = "begin" => MayEditNow(upd'[u].sender)]_vars

\* C38: after a peer has sent leave-document, its later yjs-update and
\* awareness-update messages are dropped (not persisted, not relayed to the
\* room) until it has joined again: no update of a socket outside the room is
\* taken for append, and no presence of a socket outside the room is relayed.
C38_LeftPeerDropped ==
    [][\A s \in Sockets :
          s \notin rooms =>
             /\ \A u \in UpdIds :
                   upd[u].pc = "idle" /\ upd'[u].pc = "begin" => upd'[u].sender # s
             /\ \A t \in Sockets : \A i \in Added(t) :
                   inbox'[t][i].type = "awareness-update" => inbox'[t][i].from # s]_vars

\* The events the relay handlers and the awareness handler deliver.
RelayedTypes == {EmittedAs(ev) : ev \in RelayEvents} \cup {"awareness-update"}

\* C33: a socket that has not joined the document cannot cause a message to
\* be delivered to the peers in its room: every relay handler delivers into
\* the room only on behalf of a sender with a role recorded for the document.
C33_RelayOnlyForJoined ==
    [][\A t \in Sockets : \A i \in Added(t) :
          inbox'[t][i].type \in RelayedTypes => docs[inbox'[t][i].from] # NoRole]_vars

\* --------------------------------------------------------- job run claims
\* C37: every Python job run in a container whose process exits before the
\* timeout settles: the executor resolves, the worker writes a result and the
\* job is in a terminal state instead of staying active.
C37_PythonCloseSettles ==
    \A j \in ReqIds :
        (jobs[j].lang = "python" /\ jobs[j].ran = "container" /\ jobs[j].proc = "exited") =>
            jobs[j].state \in {"completed", "removed"} /\ jobs[j].result # "none"

C36_EnqueueOutcome ==
    [][\A c \in ReqIds :
          /\ req[c].pc = "fetch" => req'[c].pc \in {"fetch", "done"}
          /\ (req[c].pc = "polling" /\ req'[c].pc = "failed") => jobs[c].state = "failed"
          /\ (req[c].pc = "polling" /\ req'[c].pc = "timeout") =>
                jobs[c].state \notin {"completed", "failed"}]_vars

====
